---- MODULE Spec2Model ----
(***************************************************************************)
(* Model of scripts/generate-paper-figures.py: the data layer              *)
(* (get_manifest, get_db, query_cell_means, compute_2x2_effects), the      *)
(* data-driven / fallback resolution inside figure4, figure5, figure7 and  *)
(* figure8, and the main block that runs the nine renderers in order.      *)
(*                                                                         *)
(* Numbers.  overall_score, the SQL aggregates and the Python arithmetic   *)
(* are binary floating point (IEEE double).  A float is modelled as        *)
(* [m, e] with value m * 2^e, m odd (or m = 0, e = 0), |m| < 2^Precision,  *)
(* and every operation rounds its exact result to nearest, ties to even,   *)
(* as the hardware does.  Precision stands for the 53-bit significand of   *)
(* a double, scaled down so that TLC's integers hold the intermediate      *)
(* results.  Values drawn by round(x, 1) are modelled as integer tenths.   *)
(***************************************************************************)
EXTENDS Integers, Sequences, FiniteSets, TLC

VARIABLES
    manifest_file,  \* content of config/paper-manifest.json, or NoFile
    db_file,        \* content of data/evaluations.db, or NoFile
    wordcloud,      \* whether the optional wordcloud package is installed
    _manifest,      \* module global _manifest (None until loaded)
    _db,            \* module global _db (None until connected)
    pc,             \* position of the process in the main block
    console,        \* sequence of lines printed so far
    images,         \* sequence of image files written so far
    drawn,          \* figure id -> the numbers and labels the figure drew
    conns,          \* log of sqlite3 connection events (connect/query/close)
    call,           \* arguments of the function under call (function specs)
    ret             \* its return value

vars == <<manifest_file, db_file, wordcloud, _manifest, _db, pc, console,
          images, drawn, conns, call, ret>>

-----------------------------------------------------------------------------
(* Bounds of the model *)

\* significand bits of the modelled floating-point format
Precision == 8
\* largest number of records in a store drawn for a single query
MaxRows == 3
\* largest number of required cells removed from the complete store
MaxMissing == 1

-----------------------------------------------------------------------------
(* Python / SQL values *)

None == [none |-> TRUE]
NULL == [null |-> TRUE]
NoFile == [nofile |-> TRUE]
Raised(exc) == [raised |-> exc]
IsRaised(v) == DOMAIN v = {"raised"}

EmptyDict == <<>>
HasKey(d, k) == k \in DOMAIN d

-----------------------------------------------------------------------------
(* Floating point: round to nearest, ties to even, Precision bits *)

Abs(x) == IF x < 0 THEN 0 - x ELSE x
Sign(x) == IF x < 0 THEN 0 - 1 ELSE IF x > 0 THEN 1 ELSE 0
Min(a, b) == IF a < b THEN a ELSE b

BitLen(a) == IF a = 0 THEN 0 ELSE CHOOSE k \in 1..30 : 2^(k-1) <= a /\ a < 2^k

RECURSIVE Canon(_, _)
Canon(m, e) ==
    IF m = 0 THEN [m |-> 0, e |-> 0]
    ELSE IF m % 2 = 0 THEN Canon(m \div 2, e + 1)
    ELSE [m |-> m, e |-> e]

\* the float nearest to the exact value M * 2^E
RoundP(M, E) ==
    LET a == Abs(M)
        bl == BitLen(a)
    IN  IF bl <= Precision THEN Canon(M, E)
        ELSE LET k == bl - Precision
                 q == a \div 2^k
                 r == a % 2^k
                 half == 2^(k-1)
                 up == r > half \/ (r = half /\ q % 2 = 1)
                 q1 == IF up THEN q + 1 ELSE q
             IN  Canon(Sign(M) * q1, E + k)

FZero == [m |-> 0, e |-> 0]
FInt(i) == RoundP(i, 0)
FNeg(a) == [m |-> 0 - a.m, e |-> a.e]
FAdd(a, b) ==
    IF a.m = 0 THEN b
    ELSE IF b.m = 0 THEN a
    ELSE LET e == Min(a.e, b.e)
         IN  RoundP(a.m * 2^(a.e - e) + b.m * 2^(b.e - e), e)
FSub(a, b) == FAdd(a, FNeg(b))
FMul(a, b) == RoundP(a.m * b.m, a.e + b.e)
\* a / n for an integer n > 0; the sticky bit makes the rounding exact
FDivInt(a, n) ==
    IF a.m = 0 THEN FZero
    ELSE LET K == Precision + 2 + BitLen(n)
             A == Abs(a.m) * 2^K
             Q == A \div n
             R == A % n
             S == 2 * Q + (IF R = 0 THEN 0 ELSE 1)
         IN  RoundP(Sign(a.m) * S, a.e - K - 1)
FPositive(a) == a.m > 0
FNegative(a) == a.m < 0
FIsZero(a) == a.m = 0

RECURSIVE IsqrtIn(_, _, _)
IsqrtIn(lo, hi, M) ==
    IF lo >= hi THEN lo
    ELSE LET mid == (lo + hi + 1) \div 2
         IN  IF mid * mid <= M THEN IsqrtIn(mid, hi, M) ELSE IsqrtIn(lo, mid - 1, M)

\* x ** 0.5 in Python: the correctly rounded square root of a float x >= 0;
\* a negative float raised to 0.5 yields a complex number
PowHalf(a) ==
    IF a.m < 0 THEN [complex |-> a]
    ELSE IF a.m = 0 THEN FZero
    ELSE LET j0 == IF BitLen(a.m) >= 2 * Precision + 2 THEN 0
                   ELSE 2 * Precision + 2 - BitLen(a.m)
             j == IF (a.e - j0) % 2 = 0 THEN j0 ELSE j0 + 1
             M == a.m * 2^j
             S == IsqrtIn(0, 2^(Precision + 3), M)
             sticky == IF S * S = M THEN 0 ELSE 1
         IN  RoundP(2 * S + sticky, ((a.e - j) \div 2) - 1)

\* round(x, 1) in Python, as an integer number of tenths: the decimal with one
\* digit nearest to the exact binary value, ties to even
Round1(a) ==
    IF a.e >= 0 THEN 10 * a.m * 2^a.e
    ELSE LET den == 2^(0 - a.e)
             num == 10 * Abs(a.m)
             q == num \div den
             r == num % den
             up == 2 * r > den \/ (2 * r = den /\ q % 2 = 1)
         IN  Sign(a.m) * (IF up THEN q + 1 ELSE q)

-----------------------------------------------------------------------------
(* SQL LIKE on strings, modelled as tuples of one-character strings *)

LowerOf == [A |-> "a", B |-> "b", C |-> "c", D |-> "d", E |-> "e", F |-> "f",
            G |-> "g", H |-> "h", I |-> "i", J |-> "j", K |-> "k", L |-> "l",
            M |-> "m", N |-> "n", O |-> "o", P |-> "p", Q |-> "q", R |-> "r",
            S |-> "s", T |-> "t", U |-> "u", V |-> "v", W |-> "w", X |-> "x",
            Y |-> "y", Z |-> "z"]
Lower(c) == IF c \in DOMAIN LowerOf THEN LowerOf[c] ELSE c

\* s LIKE p: % matches any run of characters, _ any one character, letters
\* compare without regard to case
RECURSIVE Like(_, _)
Like(s, p) ==
    IF p = <<>> THEN s = <<>>
    ELSE IF Head(p) = "%"
         THEN Like(s, Tail(p)) \/ (s # <<>> /\ Like(Tail(s), p))
    ELSE IF s = <<>> THEN FALSE
    ELSE (Head(p) = "_" \/ Lower(Head(p)) = Lower(Head(s))) /\ Like(Tail(s), Tail(p))

-----------------------------------------------------------------------------
(* Data layer *)

Range(f) == {f[i] : i \in DOMAIN f}

\* the shared sqlite3 connection object held in _db
Connection == [conn |-> "evaluations.db"]

\* Faulty variant of get_manifest: a manifest already loaded is dropped
\* instead of returned
get_manifest_forgetful(m, file) ==
    IF m = None /\ file # NoFile THEN file ELSE None

\* get_manifest(): the value returned, which is also the new _manifest
get_manifest(m, file) ==
    IF m = None /\ file # NoFile THEN file ELSE m

\* Faulty variant of get_db: only the call that opens the connection returns
\* it, later calls return None and keep the global
get_db_first_only(db, file) ==
    IF db = None /\ file # NoFile
    THEN [val |-> Connection, ev |-> <<"connect">>]
    ELSE [val |-> None, ev |-> <<>>]

\* the read of the manifest file that a get_manifest() call causes
ManifestRead(m, file) ==
    IF m = None /\ file # NoFile THEN <<"load">> ELSE <<>>

\* get_db(): val is the value returned (the new _db), ev the connection
\* events the call causes
get_db(db, file) ==
    IF db = None /\ file # NoFile
    THEN [val |-> Connection, ev |-> <<"connect">>]
    ELSE [val |-> db, ev |-> <<>>]

\* Faulty variant of Selected: the judge_model condition of the WHERE clause
\* is left out
SelectedAnyJudge(rows, run_ids, judge_filter) ==
    {i \in DOMAIN rows :
        /\ rows[i].run_id \in Range(run_ids)
        /\ rows[i].overall_score # NULL}

\* indices of the rows the WHERE clause keeps
Selected(rows, run_ids, judge_filter) ==
    {i \in DOMAIN rows :
        /\ rows[i].run_id \in Range(run_ids)
        /\ rows[i].judge_model # NULL
        /\ Like(rows[i].judge_model, judge_filter)
        /\ rows[i].overall_score # NULL}

\* the aggregates of one group, accumulated in row order as SQLite does:
\* running float sums of x and x*x and the row count
RECURSIVE Accumulate(_, _, _, _, _)
Accumulate(rows, sel, label, i, acc) ==
    IF i > Len(rows) THEN acc
    ELSE IF i \in sel /\ rows[i].profile_name = label
         THEN LET x == rows[i].overall_score
              IN  Accumulate(rows, sel, label, i + 1,
                             [sum |-> FAdd(acc.sum, x),
                              sumsq |-> FAdd(acc.sumsq, FMul(x, x)),
                              n |-> acc.n + 1])
    ELSE Accumulate(rows, sel, label, i + 1, acc)

\* Faulty variant of GroupRow: SUM(overall_score) stands where the query has
\* AVG(overall_score)
GroupRowSum(rows, sel, label) ==
    LET acc == Accumulate(rows, sel, label, 1, [sum |-> FZero, sumsq |-> FZero, n |-> 0])
        avgsq == FDivInt(acc.sumsq, acc.n)
    IN  [mean |-> acc.sum, n |-> acc.n, var |-> FSub(avgsq, FMul(acc.sum, acc.sum))]

\* one result row of the GROUP BY: mean, n and var
GroupRow(rows, sel, label) ==
    LET acc == Accumulate(rows, sel, label, 1, [sum |-> FZero, sumsq |-> FZero, n |-> 0])
        avg == FDivInt(acc.sum, acc.n)
        avgsq == FDivInt(acc.sumsq, acc.n)
    IN  [mean |-> avg, n |-> acc.n, var |-> FSub(avgsq, FMul(avg, avg))]

\* (r['var'] ** 0.5) if r['var'] and r['var'] > 0 else 0
SdOf(var) ==
    IF var # NULL /\ ~FIsZero(var) /\ FPositive(var) THEN PowHalf(var) ELSE FZero

\* the dict comprehension over the fetched rows
CellMeans(rows, run_ids, judge_filter) ==
    LET sel == Selected(rows, run_ids, judge_filter)
        labels == {rows[i].profile_name : i \in sel}
    IN  [l \in labels |->
            LET r == GroupRow(rows, sel, l)
            IN  [mean |-> r.mean, n |-> r.n, sd |-> SdOf(r.var)]]

ResultsTable == "evaluation_results"

\* Faulty variant of query_cell_means: the `if not db: return {}` guard is
\* left out, so an absent store ends in None.execute(...)
query_cell_means_unguarded(db, file, run_ids, judge_filter) ==
    LET g == get_db(db, file)
    IN  IF g.val = None
        THEN [val |-> Raised("AttributeError"), db |-> g.val, ev |-> g.ev]
        ELSE IF ResultsTable \notin file.tables
        THEN [val |-> Raised("OperationalError"), db |-> g.val,
              ev |-> g.ev \o <<"query">>]
        ELSE [val |-> CellMeans(file.rows, run_ids, judge_filter), db |-> g.val,
              ev |-> g.ev \o <<"query">>]

\* query_cell_means(run_ids, judge_filter): val is the mapping returned or
\* the exception raised, db the new _db, ev the connection events
query_cell_means(db, file, run_ids, judge_filter) ==
    LET g == get_db(db, file)
    IN  IF g.val = None
        THEN [val |-> EmptyDict, db |-> g.val, ev |-> g.ev]
        ELSE IF ResultsTable \notin file.tables
        THEN [val |-> Raised("OperationalError"), db |-> g.val,
              ev |-> g.ev \o <<"query">>]
        ELSE [val |-> CellMeans(file.rows, run_ids, judge_filter), db |-> g.val,
              ev |-> g.ev \o <<"query">>]

\* Faulty variant of MeanOrNone: a label without entry counts as mean 0
MeanOrZero(cell_means, label) ==
    IF HasKey(cell_means, label) THEN cell_means[label].mean ELSE FZero

\* dict.get(label, {}).get('mean')
MeanOrNone(cell_means, label) ==
    IF HasKey(cell_means, label) THEN cell_means[label].mean ELSE None

\* Faulty variant of compute_2x2_effects: the pair sums are not halved
compute_2x2_effects_unhalved(cell_means, base_single, base_multi, recog_single, recog_multi) ==
    LET bs == MeanOrNone(cell_means, base_single)
        bm == MeanOrNone(cell_means, base_multi)
        rs == MeanOrNone(cell_means, recog_single)
        rm == MeanOrNone(cell_means, recog_multi)
    IN  IF None \in {bs, bm, rs, rm} THEN None
        ELSE [recog_effect |-> FSub(FAdd(rs, rm), FAdd(bs, bm)),
              arch_effect |-> FSub(FAdd(bm, rm), FAdd(bs, rs)),
              interaction |-> FSub(FSub(rm, rs), FSub(bm, bs)),
              means |-> [bs |-> bs, bm |-> bm, rs |-> rs, rm |-> rm]]

compute_2x2_effects(cell_means, base_single, base_multi, recog_single, recog_multi) ==
    LET bs == MeanOrNone(cell_means, base_single)
        bm == MeanOrNone(cell_means, base_multi)
        rs == MeanOrNone(cell_means, recog_single)
        rm == MeanOrNone(cell_means, recog_multi)
    IN  IF None \in {bs, bm, rs, rm} THEN None
        ELSE [recog_effect |-> FSub(FDivInt(FAdd(rs, rm), 2), FDivInt(FAdd(bs, bm), 2)),
              arch_effect |-> FSub(FDivInt(FAdd(bm, rm), 2), FDivInt(FAdd(bs, rs), 2)),
              interaction |-> FSub(FSub(rm, rs), FSub(bm, bs)),
              means |-> [bs |-> bs, bm |-> bm, rs |-> rs, rm |-> rm]]

-----------------------------------------------------------------------------
(* Names used by the figures *)

BASE_SINGLE == "cell_1_base_single_unified"
BASE_MULTI == "cell_3_base_multi_unified"
RECOG_SINGLE == "cell_5_recog_single_unified"
RECOG_MULTI == "cell_7_recog_multi_unified"
Cells2x2 == {BASE_SINGLE, BASE_MULTI, RECOG_SINGLE, RECOG_MULTI}

\* 'claude-code%', the default judge filter
CLAUDE_CODE_FILTER == <<"c","l","a","u","d","e","-","c","o","d","e","%">>
\* judge_model values found in stores
JudgeOpus == <<"c","l","a","u","d","e","-","c","o","d","e","/","o","p","u","s">>
JudgeOpusCaps == <<"C","l","a","u","d","e","-","C","o","d","e","/","O","p","u","s">>
JudgeGpt == <<"g","p","t","-","5">>
\* a filter naming a scoring process no record has
GeminiFilter == <<"g","e","m","i","n","i","%">>

\* The suggestions column holds JSON text.  A payload is modelled by what
\* json.loads makes of it (kind), the items when that is a list, and the words
\* of the raw text; a text is the tuple of its words of three letters or more.
Suggestions(kind, items, raw) == [kind |-> kind, items |-> items, raw |-> raw]
\* a payload that parses to a list with one suggestion
DefaultSuggestions ==
    Suggestions("list", << [message |-> <<"explore", "dialectic">>] >>,
                <<"message", "explore", "dialectic">>)

Record(run, profile, score, judge) ==
    [run_id |-> run, profile_name |-> profile, overall_score |-> score,
     judge_model |-> judge, suggestions |-> DefaultSuggestions]

Store(rows) == [tables |-> {ResultsTable}, rows |-> rows]
StoreWithoutTable == [tables |-> {}, rows |-> <<>>]

SeqsUpTo(S, n) == UNION {[1..k -> S] : k \in 0..n}

-----------------------------------------------------------------------------
(* Python helpers *)

\* truth value of a dict or None
Truthy(d) == d # None /\ d # EmptyDict

Without(d, k) == [x \in DOMAIN d \ {k} |-> d[x]]
With(d, k, v) == [x \in DOMAIN d \cup {k} |-> IF x = k THEN v ELSE d[x]]

RECURSIVE SumNOver(_, _)
SumNOver(cell_means, labels) ==
    IF labels = {} THEN 0
    ELSE LET l == CHOOSE x \in labels : TRUE
         IN  cell_means[l].n + SumNOver(cell_means, labels \ {l})

\* Faulty variant of SumN: the n of the four cells of the 2x2 design only
SumNFourCells(cell_means) == SumNOver(cell_means, DOMAIN cell_means \cap Cells2x2)

\* sum(v['n'] for v in cell_means.values())
SumN(cell_means) == SumNOver(cell_means, DOMAIN cell_means)

RECURSIVE Concat(_)
Concat(seqs) == IF seqs = <<>> THEN <<>> ELSE Head(seqs) \o Concat(Tail(seqs))

-----------------------------------------------------------------------------
(* Cell labels and literals of the figures *)

Fig4Keys == <<"kimi", "nemotron", "deepseek", "glm", "haiku">>

PersonaCells ==
    << <<"cell_28_base_dialectical_suspicious_unified",
         "cell_29_recog_dialectical_suspicious_unified">>,
       <<"cell_30_base_dialectical_adversary_unified",
         "cell_31_recog_dialectical_adversary_unified">>,
       <<"cell_32_base_dialectical_advocate_unified",
         "cell_33_recog_dialectical_advocate_unified">> >>

\* scripted_recog_cells, in dict order
ScriptedRecogCells ==
    << <<"cell_41_recog_dialectical_suspicious_unified_superego", "Self-reflect (susp.)">>,
       <<"cell_43_recog_dialectical_adversary_unified_superego", "Adversary">>,
       <<"cell_45_recog_dialectical_advocate_unified_superego", "Advocate">>,
       <<"cell_47_recog_dialectical_suspicious_unified_quantitative", "Quantitative">>,
       <<"cell_49_recog_dialectical_suspicious_unified_erosion", "Erosion">>,
       <<"cell_51_recog_dialectical_suspicious_unified_intersubjective", "Intersubjective">>,
       <<"cell_53_recog_dialectical_suspicious_unified_combined", "Combined">>,
       <<"cell_55_recog_dialectical_profile_tutor", "Prof. (tutor)">>,
       <<"cell_57_recog_dialectical_profile_bidirectional", "Prof. (bidir)">> >>

\* dynamic_recog_cells, in dict order
DynamicRecogCells ==
    << <<"cell_61_recog_dialectical_selfreflect_psycho", "Self-reflect">>,
       <<"cell_63_recog_dialectical_profile_bidirectional_psycho", "Profiling">>,
       <<"cell_64_recog_dialectical_intersubjective_psycho", "Intersubjective">>,
       <<"cell_65_recog_dialectical_combined_psycho", "Combined">> >>

\* the hardcoded fallback values, in tenths
Fig4Literal ==
    [models |-> <<[label |-> "Kimi K2.5", n |-> 179], [label |-> "Nemotron", n |-> 119],
                  [label |-> "DeepSeek", n |-> 120], [label |-> "GLM-4.7", n |-> 117],
                  [label |-> "Haiku 4.5", n |-> 120]>>,
     recog_effect |-> <<155, 160, 140, 178, 96>>,
     ab_interaction |-> <<5, 0 - 57, 0 - 14, 0 - 7, 0 - 16>>]

Fig5Literal ==
    [phil |-> <<154, 0 - 8>>, elem |-> <<99, 30>>, phil_n |-> 179, elem_n |-> 60]

Fig7Literal ==
    [base |-> <<857, 885, 820>>, recog |-> <<902, 885, 956>>, total_n |-> 90]

Fig8Literal ==
    [scripted_labels |-> <<"Prof. (bidir)", "Quantitative", "Combined", "Prof. (tutor)",
                           "Self-reflect", "Intersubjective", "Erosion", "Adversary",
                           "Advocate">>,
     scripted_vals |-> <<927, 926, 924, 924, 921, 917, 908, 926, 903>>,
     dynamic_labels |-> <<"Profiling", "Combined", "Self-reflect", "Intersubjective">>,
     dynamic_vals |-> <<888, 878, 859, 828>>,
     scripted_n |-> 360, dynamic_n |-> 240]

DATA_DRIVEN == "[data-driven from DB]"
FALLBACK == "[hardcoded fallback]"

-----------------------------------------------------------------------------
(* Figure resolution.  Each figureN operator gives the outcome of the      *)
(* resolution part of the renderer: raised is the exception that escapes   *)
(* (None if none), out the numbers and labels handed to the drawing code,  *)
(* marker the provenance line printed, manifest and db the new values of   *)
(* _manifest and _db, ev the connection events caused.                     *)

\* no exception, no marker, no skip reason
Nothing == ""

Outcome(out, marker, m, db, ev) ==
    [raised |-> Nothing, out |-> out, marker |-> marker, manifest |-> m, db |-> db, ev |-> ev]
Escapes(exc, m, db, ev) ==
    [raised |-> exc, out |-> None, marker |-> Nothing, manifest |-> m, db |-> db, ev |-> ev]

\* Faulty variant of FigConfig: the `if manifest else None` guard is left
\* out, so an absent manifest ends in None['figures']
FigConfigUnguarded(m, name) ==
    IF m = None THEN Raised("TypeError")
    ELSE IF ~HasKey(m, "figures") THEN Raised("KeyError")
    ELSE IF ~HasKey(m.figures, name) THEN Raised("KeyError")
    ELSE m.figures[name]

\* manifest['figures'][name] if manifest else None
FigConfig(m, name) ==
    IF ~Truthy(m) THEN None
    ELSE IF ~HasKey(m, "figures") THEN Raised("KeyError")
    ELSE IF ~HasKey(m.figures, name) THEN Raised("KeyError")
    ELSE m.figures[name]

\* The operators below follow the statements of each renderer in order; a
\* value computed by one statement is handed to the operator that models the
\* statements after it.

Effects2x2(cell_means) ==
    compute_2x2_effects(cell_means, BASE_SINGLE, BASE_MULTI, RECOG_SINGLE, RECOG_MULTI)

\* acc after a query: the new _db and the connection events are kept
Queried(acc, q, status) ==
    [acc EXCEPT !.status = status, !.db = q.db, !.ev = acc.ev \o q.ev]

RECURSIVE Fig4Loop(_, _, _, _)

\* the appends at the end of one iteration, then the next iteration
Fig4Append(fig4_config, file, keys, acc, cfg, cell_means, effects) ==
    IF effects = None THEN [acc EXCEPT !.status = "break"]
    ELSE IF ~HasKey(cfg, "label") THEN [acc EXCEPT !.status = "KeyError"]
    ELSE Fig4Loop(fig4_config, file, Tail(keys),
            [acc EXCEPT
               !.models = Append(@, [label |-> cfg.label, n |-> SumN(cell_means)]),
               !.recog_effect = Append(@, Round1(effects.recog_effect)),
               !.ab_interaction = Append(@, Round1(effects.interaction))])

\* Faulty variant of Fig4Queried: a model whose query is empty is passed over
\* and the loop goes on with the next
Fig4QueriedSkipping(fig4_config, file, keys, acc, cfg, q) ==
    IF IsRaised(q.val) THEN Queried(acc, q, q.val.raised)
    ELSE IF q.val = EmptyDict
    THEN Fig4Loop(fig4_config, file, Tail(keys), Queried(acc, q, "loop"))
    ELSE Fig4Append(fig4_config, file, keys, Queried(acc, q, "loop"), cfg, q.val,
                    Effects2x2(q.val))

\* one iteration from the result q of its query on
Fig4Queried(fig4_config, file, keys, acc, cfg, q) ==
    IF IsRaised(q.val) THEN Queried(acc, q, q.val.raised)
    ELSE IF q.val = EmptyDict THEN Queried(acc, q, "break")
    ELSE Fig4Append(fig4_config, file, keys, Queried(acc, q, "loop"), cfg, q.val,
                    Effects2x2(q.val))

\* one iteration from cfg = fig4_config['runs'][key] on
Fig4Iteration(fig4_config, file, keys, acc, cfg) ==
    IF ~HasKey(cfg, "run_ids") \/ ~HasKey(fig4_config, "judge_filter")
    THEN [acc EXCEPT !.status = "KeyError"]
    ELSE Fig4Queried(fig4_config, file, keys, acc, cfg,
                     query_cell_means(acc.db, file, cfg.run_ids, fig4_config.judge_filter))

\* the for loop of figure4 over the remaining keys; status is "else" when
\* the loop ran to its end, "break" when it was left early, else the
\* exception that escaped
Fig4Loop(fig4_config, file, keys, acc) ==
    IF keys = <<>> THEN [acc EXCEPT !.status = "else"]
    ELSE IF ~HasKey(fig4_config, "runs") \/ ~HasKey(fig4_config.runs, Head(keys))
    THEN [acc EXCEPT !.status = "KeyError"]
    ELSE Fig4Iteration(fig4_config, file, keys, acc, fig4_config.runs[Head(keys)])

\* Faulty variant of Fig4Finish: after a break the lists built so far are
\* drawn, completed from the literals
Fig4FinishPartial(manifest, r) ==
    IF r.status \in {"else", "break"}
    THEN Outcome([models |-> r.models
                     \o SubSeq(Fig4Literal.models, Len(r.models) + 1, Len(Fig4Keys)),
                  recog_effect |-> r.recog_effect
                     \o SubSeq(Fig4Literal.recog_effect, Len(r.models) + 1, Len(Fig4Keys)),
                  ab_interaction |-> r.ab_interaction
                     \o SubSeq(Fig4Literal.ab_interaction, Len(r.models) + 1, Len(Fig4Keys))],
                 IF r.status = "else" THEN DATA_DRIVEN ELSE FALLBACK, manifest, r.db, r.ev)
    ELSE Escapes(r.status, manifest, r.db, r.ev)

\* after the loop: the else clause, or the fallback block
Fig4Finish(manifest, r) ==
    IF r.status = "else"
    THEN Outcome([models |-> r.models, recog_effect |-> r.recog_effect,
                  ab_interaction |-> r.ab_interaction],
                 DATA_DRIVEN, manifest, r.db, r.ev)
    ELSE IF r.status = "break" THEN Outcome(Fig4Literal, FALLBACK, manifest, r.db, r.ev)
    ELSE Escapes(r.status, manifest, r.db, r.ev)

\* `if fig4_config and get_db():` with g the result of get_db()
Fig4Connected(manifest, fig4_config, g, file) ==
    IF g.val = None THEN Outcome(Fig4Literal, FALLBACK, manifest, g.val, g.ev)
    ELSE Fig4Finish(manifest,
            Fig4Loop(fig4_config, file, Fig4Keys,
                     [status |-> "loop", db |-> g.val, ev |-> g.ev, models |-> <<>>,
                      recog_effect |-> <<>>, ab_interaction |-> <<>>]))

Fig4Configured(manifest, fig4_config, db0, file) ==
    IF IsRaised(fig4_config) THEN Escapes(fig4_config.raised, manifest, db0, <<>>)
    ELSE IF ~Truthy(fig4_config) THEN Outcome(Fig4Literal, FALLBACK, manifest, db0, <<>>)
    ELSE Fig4Connected(manifest, fig4_config, get_db(db0, file), file)

Fig4Loaded(manifest, db0, file) ==
    Fig4Configured(manifest, FigConfig(manifest, "figure4"), db0, file)

figure4(m0, mfile, db0, file) == Fig4Loaded(get_manifest(m0, mfile), db0, file)

\* figure5 from both mappings on
Fig5Effects(manifest, phil_means, elem_means, phil_fx, elem_fx, db, ev) ==
    IF /\ phil_means # EmptyDict /\ elem_means # EmptyDict
       /\ phil_fx # None /\ elem_fx # None
    THEN Outcome([phil |-> <<Round1(phil_fx.recog_effect), Round1(phil_fx.arch_effect)>>,
                  elem |-> <<Round1(elem_fx.recog_effect), Round1(elem_fx.arch_effect)>>,
                  phil_n |-> SumN(phil_means), elem_n |-> SumN(elem_means)],
                 DATA_DRIVEN, manifest, db, ev)
    ELSE Outcome(Fig5Literal, FALLBACK, manifest, db, ev)

\* figure5 from the result qe of the elementary query on
Fig5Elementary(manifest, phil_means, qe, ev) ==
    IF IsRaised(qe.val) THEN Escapes(qe.val.raised, manifest, qe.db, ev \o qe.ev)
    ELSE Fig5Effects(manifest, phil_means, qe.val, Effects2x2(phil_means),
                     Effects2x2(qe.val), qe.db, ev \o qe.ev)

\* figure5 from the result qp of the philosophy query on
Fig5Philosophy(manifest, fig5_config, qp, ev, file) ==
    IF IsRaised(qp.val) THEN Escapes(qp.val.raised, manifest, qp.db, ev \o qp.ev)
    ELSE IF ~HasKey(fig5_config.runs, "elementary")
    THEN Escapes("KeyError", manifest, qp.db, ev \o qp.ev)
    ELSE Fig5Elementary(manifest, qp.val,
            query_cell_means(qp.db, file, <<fig5_config.runs.elementary>>,
                             fig5_config.judge_filter),
            ev \o qp.ev)

Fig5Connected(manifest, fig5_config, g, file) ==
    IF g.val = None THEN Outcome(Fig5Literal, FALLBACK, manifest, g.val, g.ev)
    ELSE IF \/ ~HasKey(fig5_config, "runs")
            \/ ~HasKey(fig5_config.runs, "philosophy")
            \/ ~HasKey(fig5_config, "judge_filter")
    THEN Escapes("KeyError", manifest, g.val, g.ev)
    ELSE Fig5Philosophy(manifest, fig5_config,
            query_cell_means(g.val, file, <<fig5_config.runs.philosophy>>,
                             fig5_config.judge_filter),
            g.ev, file)

Fig5Configured(manifest, fig5_config, db0, file) ==
    IF IsRaised(fig5_config) THEN Escapes(fig5_config.raised, manifest, db0, <<>>)
    ELSE IF ~Truthy(fig5_config) THEN Outcome(Fig5Literal, FALLBACK, manifest, db0, <<>>)
    ELSE Fig5Connected(manifest, fig5_config, get_db(db0, file), file)

Fig5Loaded(manifest, db0, file) ==
    Fig5Configured(manifest, FigConfig(manifest, "figure5"), db0, file)

figure5(m0, mfile, db0, file) == Fig5Loaded(get_manifest(m0, mfile), db0, file)

\* the persona loop of figure7: base and recog lists, base = None after a break
RECURSIVE Fig7Loop(_, _, _)
Fig7Loop(cell_means, cells, acc) ==
    IF cells = <<>> THEN acc
    ELSE IF HasKey(cell_means, Head(cells)[1]) /\ HasKey(cell_means, Head(cells)[2])
    THEN Fig7Loop(cell_means, Tail(cells),
            [base |-> Append(acc.base, Round1(cell_means[Head(cells)[1]].mean)),
             recog |-> Append(acc.recog, Round1(cell_means[Head(cells)[2]].mean))])
    ELSE [base |-> None, recog |-> acc.recog]

\* figure7 after the persona loop, l its lists
Fig7Finish(manifest, cell_means, l, db, ev) ==
    IF l.base # None /\ Len(l.base) = 3
    THEN Outcome([base |-> l.base, recog |-> l.recog, total_n |-> SumN(cell_means)],
                 DATA_DRIVEN, manifest, db, ev)
    ELSE Outcome(Fig7Literal, FALLBACK, manifest, db, ev)

\* figure7 from the result q of its query on
Fig7Queried(manifest, q, ev) ==
    IF IsRaised(q.val) THEN Escapes(q.val.raised, manifest, q.db, ev \o q.ev)
    ELSE IF q.val = EmptyDict THEN Outcome(Fig7Literal, FALLBACK, manifest, q.db, ev \o q.ev)
    ELSE Fig7Finish(manifest, q.val,
                    Fig7Loop(q.val, PersonaCells, [base |-> <<>>, recog |-> <<>>]),
                    q.db, ev \o q.ev)

Fig7Connected(manifest, fig7_config, g, file) ==
    IF g.val = None THEN Outcome(Fig7Literal, FALLBACK, manifest, g.val, g.ev)
    ELSE IF ~HasKey(fig7_config, "runs") THEN Escapes("KeyError", manifest, g.val, g.ev)
    ELSE Fig7Queried(manifest,
                     query_cell_means(g.val, file, fig7_config.runs, CLAUDE_CODE_FILTER),
                     g.ev)

Fig7Configured(manifest, fig7_config, db0, file) ==
    IF IsRaised(fig7_config) THEN Escapes(fig7_config.raised, manifest, db0, <<>>)
    ELSE IF ~Truthy(fig7_config) THEN Outcome(Fig7Literal, FALLBACK, manifest, db0, <<>>)
    ELSE Fig7Connected(manifest, fig7_config, get_db(db0, file), file)

Fig7Loaded(manifest, db0, file) ==
    Fig7Configured(manifest, FigConfig(manifest, "figure7"), db0, file)

figure7(m0, mfile, db0, file) == Fig7Loaded(get_manifest(m0, mfile), db0, file)

\* the label/value lists figure8 collects from one mapping
RECURSIVE Fig8Collect(_, _, _)
Fig8Collect(means, cells, acc) ==
    IF cells = <<>> THEN acc
    ELSE IF HasKey(means, Head(cells)[1])
    THEN Fig8Collect(means, Tail(cells),
            [labels |-> Append(acc.labels, Head(cells)[2]),
             vals |-> Append(acc.vals, Round1(means[Head(cells)[1]].mean))])
    ELSE Fig8Collect(means, Tail(cells), acc)

SCRIPTED_MIN == 7
DYNAMIC_MIN == 3

\* np.argsort(vals)[::-1]: indices by ascending value (equal values in index
\* order), reversed
RECURSIVE ArgsortAsc(_, _)
ArgsortAsc(vals, todo) ==
    IF todo = {} THEN <<>>
    ELSE CHOOSE order \in
            {<<i>> \o ArgsortAsc(vals, todo \ {i}) :
                i \in {x \in todo :
                          \A y \in todo : vals[x] < vals[y] \/ (vals[x] = vals[y] /\ x <= y)}} :
            TRUE
Reversed(q) == [i \in 1..Len(q) |-> q[Len(q) + 1 - i]]
OrderDesc(vals) == Reversed(ArgsortAsc(vals, DOMAIN vals))
Permuted(q, order) == [i \in 1..Len(order) |-> q[order[i]]]

\* the two sorts that precede the drawing in figure8
Fig8Sorted(bundle) ==
    CHOOSE sorted \in
        {[scripted_labels |-> Permuted(b.scripted_labels, so),
          scripted_vals |-> Permuted(b.scripted_vals, so),
          dynamic_labels |-> Permuted(b.dynamic_labels, do),
          dynamic_vals |-> Permuted(b.dynamic_vals, do),
          scripted_n |-> b.scripted_n, dynamic_n |-> b.dynamic_n] :
            b \in {bundle},
            so \in {OrderDesc(bundle.scripted_vals)},
            do \in {OrderDesc(bundle.dynamic_vals)}} :
        TRUE

\* one panel of figure8: the lists and N it keeps from a mapping, or None
\* for the lists and the literal N when too few of its cells are there
Fig8Panel(means, collected, min, literal_n) ==
    IF means # EmptyDict /\ Len(collected.labels) >= min
    THEN [ok |-> TRUE, labels |-> collected.labels, vals |-> collected.vals,
          n |-> SumN(means)]
    ELSE [ok |-> FALSE, labels |-> <<>>, vals |-> <<>>, n |-> literal_n]

\* figure8 from both panels on: scripted_n and dynamic_n keep what the
\* panels assigned also when the literals are drawn
Fig8Finish(manifest, sp, dp, db, ev) ==
    IF sp.ok /\ dp.ok
    THEN Outcome(Fig8Sorted([scripted_labels |-> sp.labels, scripted_vals |-> sp.vals,
                             dynamic_labels |-> dp.labels, dynamic_vals |-> dp.vals,
                             scripted_n |-> sp.n, dynamic_n |-> dp.n]),
                 DATA_DRIVEN, manifest, db, ev)
    ELSE Outcome(Fig8Sorted([Fig8Literal EXCEPT !.scripted_n = sp.n, !.dynamic_n = dp.n]),
                 FALLBACK, manifest, db, ev)

\* figure8 from the result qd of the dynamic query on
Fig8Dynamic(manifest, sp, qd, ev) ==
    IF IsRaised(qd.val) THEN Escapes(qd.val.raised, manifest, qd.db, ev \o qd.ev)
    ELSE Fig8Finish(manifest, sp,
            Fig8Panel(qd.val,
                      Fig8Collect(qd.val, DynamicRecogCells, [labels |-> <<>>, vals |-> <<>>]),
                      DYNAMIC_MIN, Fig8Literal.dynamic_n),
            qd.db, ev \o qd.ev)

\* figure8 from the result qs of the scripted query on
Fig8Scripted(manifest, fig8_config, qs, ev, file) ==
    IF IsRaised(qs.val) THEN Escapes(qs.val.raised, manifest, qs.db, ev \o qs.ev)
    ELSE IF \/ ~HasKey(fig8_config.runs, "dynamic_60_63")
            \/ ~HasKey(fig8_config.runs, "dynamic_64_65")
    THEN Escapes("KeyError", manifest, qs.db, ev \o qs.ev)
    ELSE Fig8Dynamic(manifest,
            Fig8Panel(qs.val,
                      Fig8Collect(qs.val, ScriptedRecogCells, [labels |-> <<>>, vals |-> <<>>]),
                      SCRIPTED_MIN, Fig8Literal.scripted_n),
            query_cell_means(qs.db, file,
                             <<fig8_config.runs.dynamic_60_63, fig8_config.runs.dynamic_64_65>>,
                             CLAUDE_CODE_FILTER),
            ev \o qs.ev)

Fig8Connected(manifest, fig8_config, g, file) ==
    IF g.val = None THEN Outcome(Fig8Sorted(Fig8Literal), FALLBACK, manifest, g.val, g.ev)
    ELSE IF ~HasKey(fig8_config, "runs") \/ ~HasKey(fig8_config.runs, "scripted")
    THEN Escapes("KeyError", manifest, g.val, g.ev)
    ELSE Fig8Scripted(manifest, fig8_config,
            query_cell_means(g.val, file, <<fig8_config.runs.scripted>>, CLAUDE_CODE_FILTER),
            g.ev, file)

Fig8Configured(manifest, fig8_config, db0, file) ==
    IF IsRaised(fig8_config) THEN Escapes(fig8_config.raised, manifest, db0, <<>>)
    ELSE IF ~Truthy(fig8_config)
    THEN Outcome(Fig8Sorted(Fig8Literal), FALLBACK, manifest, db0, <<>>)
    ELSE Fig8Connected(manifest, fig8_config, get_db(db0, file), file)

Fig8Loaded(manifest, db0, file) ==
    Fig8Configured(manifest, FigConfig(manifest, "figure8"), db0, file)

figure8(m0, mfile, db0, file) == Fig8Loaded(get_manifest(m0, mfile), db0, file)

-----------------------------------------------------------------------------
(* Inputs of a run: manifests and stores *)

\* run identifiers named by the manifest; the first is also one of the two
\* runs figure6 reads
RUN_KIMI == "eval-2026-02-03-f5d4dd93"
RunNemotron == "eval-nemotron"
RunDeepseek == "eval-deepseek"
RunGlm == "eval-glm"
RunHaiku == "eval-haiku"
RunElementary == "eval-elementary"
RunPersona == "eval-persona"
RunScripted == "eval-scripted"
RunDynamicA == "eval-dynamic-60-63"
RunDynamicB == "eval-dynamic-64-65"

Fig4Entry(judge_filter) ==
    [judge_filter |-> judge_filter,
     runs |-> [kimi |-> [run_ids |-> <<RUN_KIMI>>, label |-> "Kimi K2.5"],
               nemotron |-> [run_ids |-> <<RunNemotron>>, label |-> "Nemotron"],
               deepseek |-> [run_ids |-> <<RunDeepseek>>, label |-> "DeepSeek"],
               glm |-> [run_ids |-> <<RunGlm>>, label |-> "GLM-4.7"],
               haiku |-> [run_ids |-> <<RunHaiku>>, label |-> "Haiku 4.5"]]]
Fig5Entry(judge_filter) ==
    [judge_filter |-> judge_filter,
     runs |-> [philosophy |-> RUN_KIMI, elementary |-> RunElementary]]
Fig7Entry == [runs |-> <<RunPersona>>]
Fig8Entry ==
    [runs |-> [scripted |-> RunScripted, dynamic_60_63 |-> RunDynamicA,
               dynamic_64_65 |-> RunDynamicB]]

Manifest(judge_filter) ==
    [figures |-> [figure4 |-> Fig4Entry(judge_filter), figure5 |-> Fig5Entry(judge_filter),
                  figure7 |-> Fig7Entry, figure8 |-> Fig8Entry]]
FullManifest == Manifest(CLAUDE_CODE_FILTER)

ResolvedFigures == {"figure4", "figure5", "figure7", "figure8"}

\* a manifest whose entry for figure f is replaced by entry
WithEntry(f, entry) == [figures |-> With(FullManifest.figures, f, entry)]

\* manifests with one defect: no entry for a figure, an empty entry, an
\* entry that lacks a key the figure reads
DefectiveManifests ==
    {EmptyDict, [version |-> "1"]}
    \cup {[figures |-> Without(FullManifest.figures, f)] : f \in ResolvedFigures}
    \cup {WithEntry(f, EmptyDict) : f \in ResolvedFigures}
    \cup {WithEntry(f, Without(FullManifest.figures[f], "runs")) : f \in ResolvedFigures}
    \cup {WithEntry("figure4", Without(FullManifest.figures.figure4, "judge_filter")),
          WithEntry("figure5", Without(FullManifest.figures.figure5, "judge_filter")),
          WithEntry("figure4", [FullManifest.figures.figure4 EXCEPT
                                  !.runs = Without(@, "haiku")]),
          WithEntry("figure4", [FullManifest.figures.figure4 EXCEPT
                                  !.runs.nemotron = Without(@, "label")]),
          WithEntry("figure5", [FullManifest.figures.figure5 EXCEPT
                                  !.runs = Without(@, "elementary")]),
          WithEntry("figure8", [FullManifest.figures.figure8 EXCEPT
                                  !.runs = Without(@, "dynamic_64_65")])}

\* a manifest file whose JSON text is `null`: json.load returns None
JsonNull == None

ManifestFiles ==
    {NoFile, JsonNull, FullManifest, Manifest(GeminiFilter)} \cup DefectiveManifests

\* the cells of the complete store: run, label and the scores recorded
Cell(run, label, scores) == [run |-> run, label |-> label, scores |-> scores]
Cells4(run, bs, bm, rs, rm) ==
    <<Cell(run, BASE_SINGLE, bs), Cell(run, BASE_MULTI, bm),
      Cell(run, RECOG_SINGLE, rs), Cell(run, RECOG_MULTI, rm)>>
RECURSIVE CellsOf(_, _, _)
CellsOf(run, labels, scores) ==
    IF labels = <<>> THEN <<>>
    ELSE <<Cell(run, Head(labels), <<Head(scores)>>)>>
         \o CellsOf(run, Tail(labels), Tail(scores))
Firsts(pairs) == [i \in DOMAIN pairs |-> pairs[i][1]]

CompleteCells ==
    Cells4(RUN_KIMI, <<70>>, <<75>>, <<80>>, <<85>>)
    \o Cells4(RunNemotron, <<60>>, <<66>>, <<78>>, <<80>>)
    \o Cells4(RunDeepseek, <<64>>, <<65>>, <<77>>, <<79>>)
    \o Cells4(RunGlm, <<50>>, <<52>>, <<70>>, <<71>>)
    \o Cells4(RunHaiku, <<80>>, <<81>>, <<90>>, <<89>>)
    \o Cells4(RunElementary, <<70, 72, 68>>, <<75, 77>>, <<80, 82, 78>>, <<85, 87>>)
    \o CellsOf(RunPersona, Concat(PersonaCells), <<86, 90, 88, 89, 82, 96>>)
    \o CellsOf(RunScripted, Firsts(ScriptedRecogCells),
               <<92, 93, 90, 93, 91, 92, 92, 92, 93>>)
    \o CellsOf(RunDynamicA, SubSeq(Firsts(DynamicRecogCells), 1, 2), <<86, 89>>)
    \o CellsOf(RunDynamicB, SubSeq(Firsts(DynamicRecogCells), 3, 4), <<83, 88>>)

\* how a cell can come to have no usable record: its records were never
\* written, their scores are null, or another judge scored them
Lacks == {"absent", "unscored", "other-judge"}

CellRows(c, lack) ==
    IF lack = "absent" THEN <<>>
    ELSE [i \in DOMAIN c.scores |->
            Record(c.run, c.label,
                   IF lack = "unscored" THEN NULL ELSE FInt(c.scores[i]),
                   IF lack = "other-judge" THEN JudgeGpt ELSE JudgeOpus)]

\* the rows of the store in which the cells numbered in missing lack their
\* records in the given way
RECURSIVE StoreRows(_, _, _)
StoreRows(i, missing, lack) ==
    IF i > Len(CompleteCells) THEN <<>>
    ELSE CellRows(CompleteCells[i], IF i \in missing THEN lack ELSE "present")
         \o StoreRows(i + 1, missing, lack)

CompleteStore == Store(StoreRows(1, {}, "absent"))

RECURSIVE SubsetsUpTo(_, _)
SubsetsUpTo(S, n) ==
    IF n = 0 THEN {{}}
    ELSE LET smaller == SubsetsUpTo(S, n - 1)
         IN  smaller \cup {x \cup {e} : x \in smaller, e \in S}

\* stores lacking one cell in each of the ways, or up to MaxMissing cells
\* whose records were never written
DegradedStores ==
    {Store(StoreRows(1, {c}, lack)) : c \in DOMAIN CompleteCells, lack \in Lacks}
    \cup {Store(StoreRows(1, missing, "absent")) :
             missing \in SubsetsUpTo(DOMAIN CompleteCells, MaxMissing) \ {{}}}

Runs == {CompleteCells[i].run : i \in DOMAIN CompleteCells}
\* stores in which one whole run was never evaluated
StoresWithoutRun ==
    {Store(StoreRows(1, {i \in DOMAIN CompleteCells : CompleteCells[i].run = r}, "absent")) :
        r \in Runs}

\* stores with one record more than the complete store, for a cell no figure
\* asks for
EXTRA_CELL == "cell_9_enhanced_single_unified"
StoresWithExtra ==
    {Store(CompleteStore.rows \o <<Record(r, EXTRA_CELL, FInt(90), JudgeOpus)>>) :
        r \in Runs}

-----------------------------------------------------------------------------
(* figure6: word clouds from the suggestions of two fixed runs *)

FIG6_RUNS == <<RUN_KIMI, "eval-2026-02-06-a933d745">>
FIG6_JUDGE_FILTER == <<"%","c","l","a","u","d","e","%">>
\* the labels of the model that contain 'recog'
RecogLabels ==
    {RECOG_SINGLE, RECOG_MULTI}
    \cup {PersonaCells[i][2] : i \in DOMAIN PersonaCells}
    \cup Range(Firsts(ScriptedRecogCells)) \cup Range(Firsts(DynamicRecogCells))
\* the stop words among the words of the model
StopWords == {"the", "and", "student", "help", "review"}

\* the text parts of one suggestion: message, title and reason when present
\* and non-empty; an item that is not a dict gives none
RECURSIVE PartsOf(_, _)
PartsOf(item, keys) ==
    IF keys = <<>> THEN <<>>
    ELSE (IF "scalar" \notin DOMAIN item /\ Head(keys) \in DOMAIN item
             /\ item[Head(keys)] # <<>>
          THEN item[Head(keys)] ELSE <<>>)
         \o PartsOf(item, Tail(keys))

RECURSIVE TextParts(_)
TextParts(items) ==
    IF items = <<>> THEN <<>>
    ELSE PartsOf(Head(items), <<"message", "title", "reason">>) \o TextParts(Tail(items))

\* the try/except around json.loads: a list gives the joined parts; a JSON
\* string or object iterates without finding a dict; SQL NULL, invalid JSON
\* and JSON values that cannot be iterated take the except branch, which
\* keeps the raw text
TextOf(payload) ==
    IF payload = NULL THEN <<>>
    ELSE IF payload.kind = "list" THEN TextParts(payload.items)
    ELSE IF payload.kind \in {"string", "object"} THEN <<>>
    ELSE payload.raw

\* the joined texts of the selected rows of one condition, in row order
RECURSIVE Corpus(_, _, _, _)
Corpus(rows, sel, recog, i) ==
    IF i > Len(rows) THEN <<>>
    ELSE (IF i \in sel /\ ((rows[i].profile_name \in RecogLabels) = recog)
          THEN TextOf(rows[i].suggestions) ELSE <<>>)
         \o Corpus(rows, sel, recog, i + 1)

\* text_to_freq
Freq(corpus) ==
    [w \in Range(corpus) \ StopWords |-> Cardinality({i \in DOMAIN corpus : corpus[i] = w})]

\* figure6 from the import of the word-cloud library on
Fig6Imported(file) ==
    IF file = NoFile
    THEN [raised |-> Nothing, skipped |-> "database not found", out |-> None, ev |-> <<>>]
    ELSE IF ResultsTable \notin file.tables
    THEN [raised |-> "OperationalError", skipped |-> Nothing, out |-> None,
          ev |-> <<"connect6", "query6">>]
    ELSE
    LET sel == {i \in DOMAIN file.rows :
                   /\ file.rows[i].run_id \in Range(FIG6_RUNS)
                   /\ file.rows[i].overall_score # NULL
                   /\ file.rows[i].judge_model # NULL
                   /\ Like(file.rows[i].judge_model, FIG6_JUDGE_FILTER)}
        base_freq == Freq(Corpus(file.rows, sel, FALSE, 1))
        recog_freq == Freq(Corpus(file.rows, sel, TRUE, 1))
        ev == <<"connect6", "query6", "close6">>
    IN  IF base_freq = EmptyDict \/ recog_freq = EmptyDict
        THEN [raised |-> Nothing, skipped |-> "no text extracted", out |-> None, ev |-> ev]
        ELSE [raised |-> Nothing, skipped |-> Nothing,
              out |-> [base_freq |-> base_freq, recog_freq |-> recog_freq], ev |-> ev]

\* Faulty variant of figure6: the ImportError of the missing library is not
\* caught
figure6_uncaught(wc, file) ==
    IF ~wc THEN [raised |-> "ImportError", skipped |-> Nothing, out |-> None, ev |-> <<>>]
    ELSE Fig6Imported(file)

\* figure6(): skipped is the reason printed when no image is written
figure6(wc, file) ==
    IF ~wc THEN [raised |-> Nothing, skipped |-> "pip install wordcloud", out |-> None, ev |-> <<>>]
    ELSE Fig6Imported(file)

-----------------------------------------------------------------------------
(* State shared by the specifications *)

IdleProgram ==
    /\ manifest_file = NoFile
    /\ wordcloud = FALSE
    /\ _manifest = None
    /\ _db = None
    /\ console = <<>>
    /\ images = <<>>
    /\ drawn = <<>>
    /\ conns = <<>>

-----------------------------------------------------------------------------
(* Spec: one run of the program, from the main block to its end *)

BasicStores == {NoFile, StoreWithoutTable, Store(<<>>), CompleteStore}

\* suggestions payloads that are not a JSON list of objects: text that is
\* not JSON, the JSON values true and null, a JSON string, a JSON object, a
\* list of numbers, and SQL NULL
MalformedPayloads ==
    {Suggestions("invalid", <<>>, <<"oops", "broken">>),
     Suggestions("scalar", <<>>, <<"true">>),
     Suggestions("scalar", <<>>, <<"null">>),
     Suggestions("string", <<>>, <<"explore">>),
     Suggestions("object", <<>>, <<"message", "explore">>),
     Suggestions("list", <<[scalar |-> TRUE], [scalar |-> TRUE]>>, <<>>),
     NULL}

\* the complete store with one more record of figure6's first run, between
\* the others, holding a malformed payload
PayloadStores ==
    {Store(<<CompleteStore.rows[1],
             [Record(RUN_KIMI, c, FInt(80), JudgeOpus) EXCEPT !.suggestions = p]>>
           \o Tail(CompleteStore.rows)) :
        p \in MalformedPayloads, c \in {BASE_SINGLE, RECOG_SINGLE}}

\* manifest, store and wordcloud installation a run can start with: every
\* manifest with the basic stores, the complete manifest with the others
RunInputs ==
    (ManifestFiles \X BasicStores \X BOOLEAN)
    \cup ({FullManifest} \X (DegradedStores \cup StoresWithoutRun \cup StoresWithExtra)
          \X {FALSE})
    \cup ({FullManifest} \X PayloadStores \X {TRUE})

Init ==
    /\ \E input \in RunInputs :
          /\ manifest_file = input[1]
          /\ db_file = input[2]
          /\ wordcloud = input[3]
    /\ _manifest = None
    /\ _db = None
    /\ pc = "start"
    /\ console = <<>>
    /\ images = <<>>
    /\ drawn = <<>>
    /\ conns = <<>>
    /\ call = None
    /\ ret = None

Image(n) == n \o ".png"
Draw(n, out) == With(drawn, n, out)

\* the head of the main block: the banner and the manifest/database check,
\* with next the place the program goes on from
MainHead(next) ==
    /\ pc = "start"
    /\ LET m == get_manifest(_manifest, manifest_file)
           g == IF Truthy(m) THEN get_db(_db, db_file) ELSE [val |-> _db, ev |-> <<>>]
       IN  /\ _manifest' = m
           /\ _db' = g.val
           /\ conns' = conns \o ManifestRead(_manifest, manifest_file) \o g.ev
           /\ console' = console \o <<"Generating paper figures...">>
                 \o (IF Truthy(m) /\ g.val # None THEN <<"Manifest", "Database">>
                     ELSE <<"WARNING: manifest or DB not found, using hardcoded fallbacks">>)
    /\ pc' = next
    /\ UNCHANGED <<manifest_file, db_file, wordcloud, images, drawn, call, ret>>

Start == MainHead("figure1")

\* Faulty variant of RenderStatic: the renderer announces its image without
\* writing it
RenderStaticUnwritten(at, n, next) ==
    /\ pc = at
    /\ images' = images
    /\ console' = Append(console, Image(n))
    /\ drawn' = Draw(n, "literals")
    /\ pc' = next
    /\ UNCHANGED <<manifest_file, db_file, wordcloud, _manifest, _db, conns>>

\* a renderer that draws literals only (figure1, figure2, figure3, figure9),
\* called with the program at `at`
RenderStatic(at, n, next) ==
    /\ pc = at
    /\ images' = Append(images, Image(n))
    /\ console' = Append(console, Image(n))
    /\ drawn' = Draw(n, "literals")
    /\ pc' = next
    /\ UNCHANGED <<manifest_file, db_file, wordcloud, _manifest, _db, conns>>

Static(n, next) == RenderStatic(n, n, next) /\ UNCHANGED <<call, ret>>

\* a renderer that resolves its numbers, called with the program at `at`:
\* r is the outcome of its resolution
RenderResolved(at, n, next, r) ==
    /\ pc = at
    /\ _manifest' = r.manifest
    /\ _db' = r.db
    /\ conns' = conns \o ManifestRead(_manifest, manifest_file) \o r.ev
    /\ IF r.raised # Nothing
       THEN /\ pc' = "crashed"
            /\ console' = Append(console, "Traceback: " \o r.raised)
            /\ UNCHANGED <<images, drawn>>
       ELSE /\ pc' = next
            /\ console' = console \o <<r.marker, Image(n)>>
            /\ images' = Append(images, Image(n))
            /\ drawn' = Draw(n, r.out)
    /\ UNCHANGED <<manifest_file, db_file, wordcloud>>

Resolved(n, next, r) == RenderResolved(n, n, next, r) /\ UNCHANGED <<call, ret>>

Figure1 == Static("figure1", "figure2")
Figure2 == Static("figure2", "figure3")
Figure3 == Static("figure3", "figure4")
Figure4 == Resolved("figure4", "figure5", figure4(_manifest, manifest_file, _db, db_file))
Figure5 == Resolved("figure5", "figure6", figure5(_manifest, manifest_file, _db, db_file))

\* figure6, called with the program at `at`
RenderFigure6(at, next) ==
    /\ pc = at
    /\ LET r == figure6(wordcloud, db_file)
       IN  /\ conns' = conns \o r.ev
           /\ IF r.raised # Nothing
              THEN /\ pc' = "crashed"
                   /\ console' = Append(console, "Traceback: " \o r.raised)
                   /\ UNCHANGED <<images, drawn>>
              ELSE IF r.skipped # Nothing
              THEN /\ pc' = next
                   /\ console' = Append(console, "figure6.png SKIPPED (" \o r.skipped \o ")")
                   /\ UNCHANGED <<images, drawn>>
              ELSE /\ pc' = next
                   /\ console' = Append(console, Image("figure6"))
                   /\ images' = Append(images, Image("figure6"))
                   /\ drawn' = Draw("figure6", r.out)
    /\ UNCHANGED <<manifest_file, db_file, wordcloud, _manifest, _db>>

Figure6 == RenderFigure6("figure6", "figure7") /\ UNCHANGED <<call, ret>>

Figure7 == Resolved("figure7", "figure8", figure7(_manifest, manifest_file, _db, db_file))
Figure8 == Resolved("figure8", "figure9", figure8(_manifest, manifest_file, _db, db_file))
Figure9 == Static("figure9", "finish")

\* the tail of the main block: close the shared connection, print Done
Finish ==
    /\ pc = "finish"
    /\ conns' = IF _db # None THEN Append(conns, "close") ELSE conns
    /\ console' = Append(console, "Done.")
    /\ pc' = "done"
    /\ UNCHANGED <<manifest_file, db_file, wordcloud, _manifest, _db, images, drawn,
                   call, ret>>

Next ==
    \/ Start
    \/ Figure1
    \/ Figure2
    \/ Figure3
    \/ Figure4
    \/ Figure5
    \/ Figure6
    \/ Figure7
    \/ Figure8
    \/ Figure9
    \/ Finish

Spec == Init /\ [][Next]_vars

-----------------------------------------------------------------------------
(* SpecQuery: query_cell_means called on a small arbitrary store, then     *)
(* compute_2x2_effects called on the mapping it returned                    *)

\* records a store can hold: usable ones for each of the four cells, and
\* one that fails each condition of the WHERE clause
QueryRecords ==
    {Record("r1", BASE_SINGLE, FInt(11), JudgeOpus),
     Record("r1", BASE_SINGLE, FInt(27), JudgeOpus),
     Record("r1", BASE_MULTI, FInt(70), JudgeOpus),
     Record("r1", RECOG_SINGLE, FInt(80), JudgeOpus),
     Record("r1", RECOG_MULTI, FInt(85), JudgeOpusCaps),
     Record("r1", BASE_SINGLE, NULL, JudgeOpus),
     Record("r1", BASE_SINGLE, FInt(70), JudgeGpt),
     Record("r2", BASE_SINGLE, FInt(70), JudgeOpus)}
\* one usable record for each of the four cells
FourCellRows ==
    <<Record("r1", BASE_SINGLE, FInt(70), JudgeOpus),
      Record("r1", BASE_MULTI, FInt(75), JudgeOpus),
      Record("r1", RECOG_SINGLE, FInt(80), JudgeOpus),
      Record("r1", RECOG_MULTI, FInt(85), JudgeOpus)>>
\* the same record made to fail one condition of the WHERE clause
Unusable(r) ==
    {[r EXCEPT !.overall_score = NULL], [r EXCEPT !.judge_model = JudgeGpt],
     [r EXCEPT !.run_id = "r2"]}
FourCellStores ==
    {Store(FourCellRows)}
    \cup {Store([FourCellRows EXCEPT ![i] = u]) :
             i \in DOMAIN FourCellRows, u \in UNION {Unusable(FourCellRows[j]) : j \in 1..4}}
\* the ten records of the end-to-end example, cell by cell
EndToEndRows ==
    CellRows(Cell("r1", BASE_SINGLE, <<70, 72, 68>>), "present")
    \o CellRows(Cell("r1", BASE_MULTI, <<75, 77>>), "present")
    \o CellRows(Cell("r1", RECOG_SINGLE, <<80, 82, 78>>), "present")
    \o CellRows(Cell("r1", RECOG_MULTI, <<85, 87>>), "present")
\* the example in two row orders, and with records that do not count
EndToEndStores ==
    {Store(EndToEndRows), Store(Reversed(EndToEndRows)),
     Store(<<Record("r2", BASE_SINGLE, FInt(11), JudgeOpus)>> \o EndToEndRows
           \o <<Record("r1", RECOG_MULTI, FInt(27), JudgeGpt),
                Record("r1", BASE_MULTI, NULL, JudgeOpus)>>)}
QueryDbFiles ==
    {NoFile, StoreWithoutTable}
    \cup {Store(rows) : rows \in SeqsUpTo(QueryRecords, MaxRows)}
    \cup FourCellStores
    \cup EndToEndStores
QueryCall(run_ids, judge_filter) ==
    [fn |-> "query_cell_means", run_ids |-> run_ids, judge_filter |-> judge_filter,
     cell_means |-> None]
QueryCalls ==
    {QueryCall(<<"r1">>, CLAUDE_CODE_FILTER), QueryCall(<<"r1", "r2">>, CLAUDE_CODE_FILTER),
     QueryCall(<<"r1">>, GeminiFilter)}

InitQuery ==
    /\ IdleProgram
    /\ db_file \in QueryDbFiles
    /\ call \in QueryCalls
    /\ ret = None
    /\ pc = "call"

CallQueryCellMeans ==
    /\ pc = "call"
    /\ LET q == query_cell_means(_db, db_file, call.run_ids, call.judge_filter)
       IN  /\ ret' = q.val
           /\ _db' = q.db
           /\ conns' = conns \o q.ev
    /\ pc' = "queried"
    /\ UNCHANGED <<manifest_file, db_file, wordcloud, _manifest, console, images,
                   drawn, call>>

CallCompute2x2 ==
    /\ pc = "queried"
    /\ ~IsRaised(ret)
    /\ call' = [call EXCEPT !.fn = "compute_2x2_effects", !.cell_means = ret]
    /\ ret' = Effects2x2(ret)
    /\ pc' = "computed"
    /\ UNCHANGED <<manifest_file, db_file, wordcloud, _manifest, _db, console,
                   images, drawn, conns>>

NextQuery == CallQueryCellMeans \/ CallCompute2x2

SpecQuery == InitQuery /\ [][NextQuery]_vars

-----------------------------------------------------------------------------
(* SpecFx: compute_2x2_effects called on a mapping of cell aggregates      *)

MeanValues == {0, 70, 75, 80, 85}
Aggregate(mean) == [mean |-> FInt(mean), n |-> 1, sd |-> FZero]
\* mappings in which each of the four cells is absent or has one of the means
FxMappings ==
    UNION {[present -> {Aggregate(v) : v \in MeanValues}] : present \in SUBSET Cells2x2}

InitFx ==
    /\ IdleProgram
    /\ db_file = NoFile
    /\ \E cm \in FxMappings :
          call = [fn |-> "compute_2x2_effects", run_ids |-> <<>>, judge_filter |-> <<>>,
                  cell_means |-> cm]
    /\ ret = None
    /\ pc = "call"

ApplyEffects ==
    /\ pc = "call"
    /\ ret' = Effects2x2(call.cell_means)
    /\ pc' = "computed"
    /\ UNCHANGED <<manifest_file, db_file, wordcloud, _manifest, _db, console,
                   images, drawn, conns, call>>

NextFx == ApplyEffects

SpecFx == InitFx /\ [][NextFx]_vars

-----------------------------------------------------------------------------
(* Specification SpecCalls: the renderers called in any order, any number of
   times, in one process, after the head of the main block *)

\* the number of renderer calls followed
MaxCalls == 2

Renderers == {"figure1", "figure2", "figure3", "figure4", "figure5", "figure6",
              "figure7", "figure8", "figure9"}

\* a store in which the scripted run of figure8 was never evaluated
StoreWithoutScripted ==
    Store(StoreRows(1, {i \in DOMAIN CompleteCells : CompleteCells[i].run = RunScripted},
                    "absent"))

CallInputs ==
    {NoFile, FullManifest, [figures |-> Without(FullManifest.figures, "figure7")]}
    \X {NoFile, CompleteStore, StoreWithoutScripted}
    \X BOOLEAN

\* call holds the renderers called so far, in order
InitCalls ==
    /\ \E input \in CallInputs :
          /\ manifest_file = input[1]
          /\ db_file = input[2]
          /\ wordcloud = input[3]
    /\ _manifest = None
    /\ _db = None
    /\ pc = "start"
    /\ console = <<>>
    /\ images = <<>>
    /\ drawn = <<>>
    /\ conns = <<>>
    /\ call = <<>>
    /\ ret = None

StartCalls == MainHead("main")

\* the resolution a figure makes in the state the process is in
Resolution(n) ==
    CASE n = "figure4" -> figure4(_manifest, manifest_file, _db, db_file)
      [] n = "figure5" -> figure5(_manifest, manifest_file, _db, db_file)
      [] n = "figure7" -> figure7(_manifest, manifest_file, _db, db_file)
      [] n = "figure8" -> figure8(_manifest, manifest_file, _db, db_file)

\* one more call of renderer n
Invoke(n) ==
    /\ Len(call) < MaxCalls
    /\ call' = Append(call, n)
    /\ ret' = ret
    /\ IF n \in ResolvedFigures THEN RenderResolved("main", n, "main", Resolution(n))
       ELSE IF n = "figure6" THEN RenderFigure6("main", "main")
       ELSE RenderStatic("main", n, "main")

NextCalls == StartCalls \/ \E n \in Renderers : Invoke(n)

SpecCalls == InitCalls /\ [][NextCalls]_vars

-----------------------------------------------------------------------------
(* Specification SpecEnv: the run of the main block while the manifest file
   and the store file may be created by another process *)

InitEnv ==
    /\ manifest_file \in {NoFile, FullManifest}
    /\ db_file \in {NoFile, CompleteStore}
    /\ wordcloud \in BOOLEAN
    /\ _manifest = None
    /\ _db = None
    /\ pc = "start"
    /\ console = <<>>
    /\ images = <<>>
    /\ drawn = <<>>
    /\ conns = <<>>
    /\ call = None
    /\ ret = None

Running == pc \notin {"done", "crashed"}

\* config/paper-manifest.json is created while the program runs
ManifestAppears ==
    /\ Running
    /\ manifest_file = NoFile
    /\ manifest_file' = FullManifest
    /\ UNCHANGED <<db_file, wordcloud, _manifest, _db, pc, console, images, drawn,
                   conns, call, ret>>

\* data/evaluations.db is created while the program runs
StoreAppears ==
    /\ Running
    /\ db_file = NoFile
    /\ db_file' = CompleteStore
    /\ UNCHANGED <<manifest_file, wordcloud, _manifest, _db, pc, console, images,
                   drawn, conns, call, ret>>

NextEnv == Next \/ ManifestAppears \/ StoreAppears

SpecEnv == InitEnv /\ [][NextEnv]_vars

-----------------------------------------------------------------------------
(* Specification SpecLive: the run of the main block as the interpreter
   executes it, one thread that goes on to its next statement as long as
   there is one.  It starts from a small set of inputs. *)

\* a judge_model that figure6's filter '%claude%' keeps and 'claude-code%'
\* does not
JudgeSonnet == <<"c","l","a","u","d","e","-","s","o","n","n","e","t">>

\* a store with two records of figure6's first run, scored by that judge
SmallStore ==
    Store(<<Record(RUN_KIMI, BASE_SINGLE, FInt(70), JudgeSonnet),
            Record(RUN_KIMI, RECOG_SINGLE, FInt(80), JudgeSonnet)>>)

LiveInputs ==
    {NoFile, JsonNull, FullManifest, [figures |-> Without(FullManifest.figures, "figure7")]}
    \X {NoFile, StoreWithoutTable, Store(<<>>), SmallStore}
    \X BOOLEAN

InitLive ==
    /\ \E input \in LiveInputs :
          /\ manifest_file = input[1]
          /\ db_file = input[2]
          /\ wordcloud = input[3]
    /\ _manifest = None
    /\ _db = None
    /\ pc = "start"
    /\ console = <<>>
    /\ images = <<>>
    /\ drawn = <<>>
    /\ conns = <<>>
    /\ call = None
    /\ ret = None

SpecLive == InitLive /\ [][Next]_vars /\ WF_vars(Next)

-----------------------------------------------------------------------------
(* Properties of compute_2x2_effects, checked under SpecFx *)

\* the whole number a float stands for, and twice the number it stands for
IntOf(a) == a.m * 2^a.e
Halves(a) == a.m * 2^(a.e + 1)
\* the mean handed to compute_2x2_effects for a label
MeanOf(label) == IntOf(call.cell_means[label].mean)

\* C1: when the four required labels are present with means bs, bm, rs, rm,
\* compute_2x2_effects returns recog_effect = (rs+rm)/2 - (bs+bm)/2,
\* arch_effect = (bm+rm)/2 - (bs+rs)/2 and interaction = (rm-rs) - (bm-bs).
EffectsFormulas ==
    (pc = "computed" /\ Cells2x2 \subseteq DOMAIN call.cell_means) =>
        /\ ret # None
        /\ Halves(ret.recog_effect) =
              (MeanOf(RECOG_SINGLE) + MeanOf(RECOG_MULTI))
              - (MeanOf(BASE_SINGLE) + MeanOf(BASE_MULTI))
        /\ Halves(ret.arch_effect) =
              (MeanOf(BASE_MULTI) + MeanOf(RECOG_MULTI))
              - (MeanOf(BASE_SINGLE) + MeanOf(RECOG_SINGLE))
        /\ IntOf(ret.interaction) =
              (MeanOf(RECOG_MULTI) - MeanOf(RECOG_SINGLE))
              - (MeanOf(BASE_MULTI) - MeanOf(BASE_SINGLE))

\* the example of C1: means 70, 75, 80, 85 give 10, 5 and 0
EffectsExample ==
    /\ pc = "computed"
    /\ Cells2x2 \subseteq DOMAIN call.cell_means
    /\ MeanOf(BASE_SINGLE) = 70
    /\ MeanOf(BASE_MULTI) = 75
    /\ MeanOf(RECOG_SINGLE) = 80
    /\ MeanOf(RECOG_MULTI) = 85
    /\ ret.recog_effect = FInt(10)
    /\ ret.arch_effect = FInt(5)
    /\ ret.interaction = FZero

-----------------------------------------------------------------------------
(* Properties of query_cell_means, checked under SpecQuery *)

\* the records of the store that count for a label in the call made: run_id
\* among the run ids, judge_model matching the filter, overall_score not null
Counted(label) ==
    IF db_file = NoFile THEN {}
    ELSE {i \in DOMAIN db_file.rows :
            /\ db_file.rows[i].profile_name = label
            /\ db_file.rows[i].run_id \in Range(call.run_ids)
            /\ db_file.rows[i].overall_score # NULL
            /\ Like(db_file.rows[i].judge_model, call.judge_filter)}
StoredLabels ==
    IF db_file = NoFile THEN {}
    ELSE {db_file.rows[i].profile_name : i \in DOMAIN db_file.rows}

\* the exact sum of the scores of a set of records
RECURSIVE SumScores(_)
SumScores(S) ==
    IF S = {} THEN 0
    ELSE LET i == CHOOSE x \in S : TRUE
         IN  IntOf(db_file.rows[i].overall_score) + SumScores(S \ {i})

\* float a is total/n: exactly when n divides total, else to within 1/2
IsAverage(a, total, n) ==
    IF total % n = 0 THEN a = FInt(total \div n)
    ELSE LET k == IF a.e < 0 THEN 0 - a.e ELSE 0
         IN  2 * Abs(a.m * 2^(a.e + k) * n - total * 2^k) <= n * 2^k

\* C7: query_cell_means returns exactly one entry per label that has a
\* record with run_id in the given set, judge_model matching the filter and
\* a non-null overall_score; n is the count of those records and mean their
\* average; the other records contribute to no entry.
CellMeansPerLabel ==
    (pc = "queried" /\ ~IsRaised(ret)) =>
        /\ DOMAIN ret = {l \in StoredLabels : Counted(l) # {}}
        /\ \A l \in DOMAIN ret :
              /\ ret[l].n = Cardinality(Counted(l))
              /\ IsAverage(ret[l].mean, SumScores(Counted(l)), Cardinality(Counted(l)))

\* two records that count and one of another judge: n = 2, mean = 19
CellMeansExample ==
    /\ pc = "queried"
    /\ db_file = Store(<<Record("r1", BASE_SINGLE, FInt(11), JudgeOpus),
                         Record("r1", BASE_SINGLE, FInt(27), JudgeOpus),
                         Record("r1", BASE_SINGLE, FInt(70), JudgeGpt)>>)
    /\ call.run_ids = <<"r1">>
    /\ call.judge_filter = CLAUDE_CODE_FILTER
    /\ DOMAIN ret = {BASE_SINGLE}
    /\ ret[BASE_SINGLE].n = 2
    /\ ret[BASE_SINGLE].mean = FInt(19)

\* C11: end to end, a store holding base-single scores 70, 72, 68,
\* base-multi 75, 77, recog-single 80, 82, 78 and recog-multi 85, 87 resolves
\* to the means 70, 76, 80, 86 and the effects recog_effect = 10,
\* arch_effect = 6, interaction = 0.
EndToEnd ==
    (/\ pc = "computed"
     /\ db_file \in EndToEndStores
     /\ call.run_ids = <<"r1">>
     /\ call.judge_filter = CLAUDE_CODE_FILTER) =>
        /\ [l \in Cells2x2 |-> call.cell_means[l].n] =
              [l \in Cells2x2 |-> Cardinality(Counted(l))]
        /\ ret # None
        /\ ret.means = [bs |-> FInt(70), bm |-> FInt(76), rs |-> FInt(80), rm |-> FInt(86)]
        /\ ret.recog_effect = FInt(10)
        /\ ret.arch_effect = FInt(6)
        /\ ret.interaction = FZero

\* the example store among records that do not count, resolved
EndToEndExample ==
    /\ pc = "computed"
    /\ db_file \in EndToEndStores
    /\ Len(db_file.rows) = 13
    /\ call.run_ids = <<"r1">>
    /\ call.judge_filter = CLAUDE_CODE_FILTER
    /\ call.cell_means[BASE_SINGLE].n = 3
    /\ call.cell_means[RECOG_MULTI].n = 2
    /\ ret.means.bm = FInt(76)
    /\ ret.recog_effect = FInt(10)
    /\ ret.arch_effect = FInt(6)
    /\ ret.interaction = FZero

\* C6: a required cell without any record that counts is treated as
\* missing: it has no entry in the mapping (so no mean 0 stands in for it)
\* and compute_2x2_effects returns None.
MissingCellGivesNone ==
    (pc = "computed" /\ \E l \in Cells2x2 : Counted(l) = {}) =>
        /\ ret = None
        /\ \A l \in Cells2x2 : Counted(l) = {} => l \notin DOMAIN call.cell_means

\* three cells with a record that counts, base-single with a null score only
MissingCellExample ==
    /\ pc = "computed"
    /\ db_file = Store([FourCellRows EXCEPT ![1].overall_score = NULL])
    /\ call.run_ids = <<"r1">>
    /\ call.judge_filter = CLAUDE_CODE_FILTER
    /\ DOMAIN call.cell_means = Cells2x2 \ {BASE_SINGLE}
    /\ ret = None

\* C8: when the store file is absent, query_cell_means returns the empty
\* mapping, raises nothing and opens no connection.
AbsentStoreGivesEmpty ==
    (db_file = NoFile /\ pc # "call") =>
        /\ pc = "queried" => ret = EmptyDict
        /\ conns = <<>>
        /\ _db = None

AbsentStoreExample ==
    /\ db_file = NoFile
    /\ pc = "queried"
    /\ call.run_ids = <<"r1", "r2">>
    /\ ret = EmptyDict
    /\ conns = <<>>

\* the scores of a set of records are all the same
AllEqual(S) ==
    \A i, j \in S : db_file.rows[i].overall_score = db_file.rows[j].overall_score
\* the variance estimate of the group of a label in the call made
VarOf(label) ==
    GroupRow(db_file.rows, Selected(db_file.rows, call.run_ids, call.judge_filter),
             label).var

\* sd is 0 when the variance estimate is not positive, else its square root
SdFollowsGuard ==
    (pc = "queried" /\ ~IsRaised(ret)) =>
        \A l \in DOMAIN ret :
            ret[l].sd = (IF FPositive(VarOf(l)) THEN PowHalf(VarOf(l)) ELSE FZero)
\* sd is never negative
SdNonNegative ==
    (pc = "queried" /\ ~IsRaised(ret)) => \A l \in DOMAIN ret : ~FNegative(ret[l].sd)
\* a cell of one record has sd 0
SdZeroOnSingle ==
    (pc = "queried" /\ ~IsRaised(ret)) =>
        \A l \in DOMAIN ret : ret[l].n = 1 => FIsZero(ret[l].sd)
\* a cell whose scores are all equal has sd 0
SdZeroOnConstant ==
    (pc = "queried" /\ ~IsRaised(ret)) =>
        \A l \in DOMAIN ret : AllEqual(Counted(l)) => FIsZero(ret[l].sd)

\* C10: sd is 0 whenever the variance estimate is null, zero or negative and
\* its square root otherwise; a cell whose scores are all equal, or a cell of
\* a single record, has sd = 0; sd >= 0 always.
SdOfCells ==
    SdFollowsGuard /\ SdNonNegative /\ SdZeroOnSingle /\ SdZeroOnConstant

\* three records of one cell with the same score, and a positive sd
ConstantCellPositiveSd ==
    /\ pc = "queried"
    /\ db_file = Store([i \in 1..3 |-> Record("r1", BASE_SINGLE, FInt(11), JudgeOpus)])
    /\ call.run_ids = <<"r1">>
    /\ call.judge_filter = CLAUDE_CODE_FILTER
    /\ ret[BASE_SINGLE].n = 3
    /\ ret[BASE_SINGLE].mean = FInt(11)
    /\ FPositive(ret[BASE_SINGLE].sd)

-----------------------------------------------------------------------------
(* Properties of the figure resolutions, checked under Spec *)

\* the bundle a figure draws when it falls back, as handed to the drawing code
Literal(n) ==
    CASE n = "figure4" -> Fig4Literal
      [] n = "figure5" -> Fig5Literal
      [] n = "figure7" -> Fig7Literal
      [] n = "figure8" -> Fig8Sorted(Fig8Literal)

\* the resolved figures whose image has been written
Done == ResolvedFigures \cap DOMAIN drawn

\* the console line printed just before the line of figure n's image
MarkerOf(n) ==
    LET i == CHOOSE j \in DOMAIN console : console[j] = Image(n)
    IN  console[i - 1]

\* the lines figure6 can print
Fig6Lines ==
    {Image("figure6")}
    \cup {"figure6.png SKIPPED (" \o reason \o ")" :
             reason \in {"pip install wordcloud", "database not found", "no text extracted"}}
\* an exception escaped figure6: figure5 was drawn and figure6 printed nothing
Fig6Crashed ==
    pc = "crashed" /\ "figure5" \in DOMAIN drawn /\ Range(console) \cap Fig6Lines = {}
\* an exception escaped the resolution of figure4, figure5, figure7 or figure8
ResolverCrashed == pc = "crashed" /\ ~Fig6Crashed

\* the manifest file holds every entry with every key the figures read
CompleteManifest == manifest_file \in {FullManifest, Manifest(GeminiFilter)}
\* the store file exists and holds the table
UsableStore == db_file # NoFile /\ ResultsTable \in db_file.tables

\* the records of the store that a query for run_ids and judge_filter reads
Matching(run_ids, judge_filter) ==
    IF ~UsableStore THEN {}
    ELSE {i \in DOMAIN db_file.rows :
            /\ db_file.rows[i].run_id \in run_ids
            /\ db_file.rows[i].overall_score # NULL
            /\ Like(db_file.rows[i].judge_model, judge_filter)}

\* the queries a figure makes under a complete manifest: run ids and filter
QueriesOf(n) ==
    CASE n = "figure4" ->
            {<<{r}, manifest_file.figures.figure4.judge_filter>> :
                r \in {RUN_KIMI, RunNemotron, RunDeepseek, RunGlm, RunHaiku}}
      [] n = "figure5" ->
            {<<{r}, manifest_file.figures.figure5.judge_filter>> :
                r \in {RUN_KIMI, RunElementary}}
      [] n = "figure7" -> {<<{RunPersona}, CLAUDE_CODE_FILTER>>}
      [] n = "figure8" -> {<<{RunScripted}, CLAUDE_CODE_FILTER>>,
                           <<{RunDynamicA, RunDynamicB}, CLAUDE_CODE_FILTER>>}

\* one of the four required cells of some query of figure n has no record
LacksRequiredCell(n) ==
    \E q \in QueriesOf(n), l \in Cells2x2 :
        ~\E i \in Matching(q[1], q[2]) : db_file.rows[i].profile_name = l

\* C2: figure4 and figure5 draw the complete literal bundle, under the
\* fallback marker, whenever one of their four required cells has no matching
\* record in the store: nothing computed from the store is drawn.
TwoByTwoAllOrNothing ==
    \A n \in {"figure4", "figure5"} :
        (n \in Done /\ CompleteManifest /\ LacksRequiredCell(n)) =>
            drawn[n] = Literal(n) /\ MarkerOf(n) = FALLBACK

\* the last model of figure4 has a recog-multi cell with null scores only:
\* four models were computed from the store, and the literals are drawn;
\* figure5, whose cells are all there, is data-driven in the same run
PartialFigure4Discarded ==
    /\ manifest_file = FullManifest
    /\ db_file = Store(StoreRows(1, {20}, "unscored"))
    /\ {"figure4", "figure5"} \subseteq Done
    /\ drawn["figure4"] = Fig4Literal
    /\ MarkerOf("figure4") = FALLBACK
    /\ MarkerOf("figure5") = DATA_DRIVEN

\* C3: no figure resolution raises: whatever the manifest (absent, without
\* the figure's entry, with an incomplete entry) and the store (absent,
\* without the table, with any records), it ends in the data-driven result or
\* in the literal fallback.
NoResolverError == ~ResolverCrashed

\* the manifest has no entry for figure4, and figure4 ends in a KeyError
MissingEntryKeyError ==
    /\ manifest_file = [figures |-> Without(FullManifest.figures, "figure4")]
    /\ db_file = CompleteStore
    /\ pc = "crashed"
    /\ "figure4" \notin DOMAIN drawn
    /\ console[Len(console)] = "Traceback: KeyError"

\* every resolved figure drawn so far shows the literals under the fallback marker
AllFallback == \A n \in Done : drawn[n] = Literal(n) /\ MarkerOf(n) = FALLBACK
\* the shared handle was neither opened nor queried
StoreUntouched == _db = None /\ Range(conns) \cap {"connect", "query", "close"} = {}

\* C4: with no manifest file, get_manifest returns None without raising and
\* every figure resolution returns the literal fallback without querying the
\* store, as it does with a complete manifest and no store file.
AbsentManifestFallsBack ==
    /\ manifest_file = NoFile =>
          _manifest = None /\ ~ResolverCrashed /\ AllFallback /\ StoreUntouched
    /\ (CompleteManifest /\ db_file = NoFile) =>
          ~ResolverCrashed /\ AllFallback /\ StoreUntouched

\* a run without manifest file and with the complete store, at its end
AbsentManifestRun ==
    /\ manifest_file = NoFile
    /\ db_file = CompleteStore
    /\ pc = "done"
    /\ Done = ResolvedFigures
    /\ AllFallback
    /\ StoreUntouched

\* the provenance markers on the console
Markers == {i \in DOMAIN console : console[i] \in {DATA_DRIVEN, FALLBACK}}

\* the marker of figure n is the fallback marker exactly when the literal
\* bundle is drawn, and the data-driven marker otherwise
MarkerMatches(n) ==
    /\ MarkerOf(n) \in {DATA_DRIVEN, FALLBACK}
    /\ MarkerOf(n) = FALLBACK <=> drawn[n] = Literal(n)

\* C5: every figure resolution prints exactly one provenance marker, and the
\* marker matches what is drawn: the fallback marker exactly when the
\* embedded literals are drawn, the data-driven marker exactly when the
\* values drawn were computed from the store.
MarkerMatchesProvenance ==
    /\ Cardinality(Markers) = Cardinality(Done)
    /\ \A n \in Done : MarkerMatches(n)

\* figure4, figure5 and figure7 alone
MarkerMatchesBut8 == \A n \in Done \ {"figure8"} : MarkerMatches(n)

\* one of the two dynamic runs was never evaluated: figure8 prints the
\* fallback marker over a scripted N counted in the store
FallbackMarkerStoreN ==
    /\ manifest_file = FullManifest
    /\ db_file = Store(StoreRows(1, {i \in DOMAIN CompleteCells :
                                        CompleteCells[i].run = RunDynamicA}, "absent"))
    /\ "figure8" \in Done
    /\ MarkerOf("figure8") = FALLBACK
    /\ drawn["figure8"].scripted_n = 9
    /\ drawn["figure8"].scripted_n # Fig8Literal.scripted_n
    /\ drawn["figure8"].scripted_vals = Literal("figure8").scripted_vals

\* some query of figure n matches no record of the existing store
EmptyQuery(n) ==
    UsableStore /\ \E q \in QueriesOf(n) : Matching(q[1], q[2]) = {}

EmptyQueryFallsBack(n) ==
    (n \in Done /\ EmptyQuery(n)) => drawn[n] = Literal(n) /\ MarkerOf(n) = FALLBACK

\* C9: when the judge filter or the run ids match no record of an existing
\* store, the figure resolution takes the empty mapping as missing data and
\* returns the literal fallback, and no key lookup fails.
EmptyMappingFallsBack ==
    CompleteManifest =>
        /\ UsableStore => pc # "crashed"
        /\ \A n \in ResolvedFigures : EmptyQueryFallsBack(n)

\* figure4, figure5 and figure7 alone
EmptyMappingFallsBackBut8 ==
    CompleteManifest =>
        /\ UsableStore => pc # "crashed"
        /\ \A n \in ResolvedFigures \ {"figure8"} : EmptyQueryFallsBack(n)

\* the scripted run was never evaluated: its query is empty, and figure8
\* falls back with a dynamic N counted in the store
EmptyScriptedStoreN ==
    /\ manifest_file = FullManifest
    /\ db_file = Store(StoreRows(1, {i \in DOMAIN CompleteCells :
                                        CompleteCells[i].run = RunScripted}, "absent"))
    /\ "figure8" \in Done
    /\ MarkerOf("figure8") = FALLBACK
    /\ drawn["figure8"].dynamic_n = 4
    /\ drawn["figure8"].dynamic_n # Fig8Literal.dynamic_n

\* the condition labels figure7 and figure8 look up, each with the runs of
\* the query it is looked up in
RequiredLabels(n) ==
    CASE n = "figure7" -> {<<{RunPersona}, p[k]>> : p \in Range(PersonaCells), k \in 1..2}
      [] n = "figure8" ->
            {<<{RunScripted}, c[1]>> : c \in Range(ScriptedRecogCells)}
            \cup {<<{RunDynamicA, RunDynamicB}, c[1]>> : c \in Range(DynamicRecogCells)}

\* the required labels of figure n that have no matching record in the store
MissingLabels(n) ==
    {q \in RequiredLabels(n) :
        ~\E i \in Matching(q[1], CLAUDE_CODE_FILTER) : db_file.rows[i].profile_name = q[2]}

MultiAllOrNothing(n) ==
    (n \in Done /\ CompleteManifest /\ MissingLabels(n) # {}) =>
        drawn[n] = Literal(n) /\ MarkerOf(n) = FALLBACK

\* C13: figure7 and figure8 draw the literal fallback whenever one of their
\* required condition labels (6 for figure7, 9 scripted and 4 dynamic for
\* figure8) has no matching record in the store; they are data-driven only
\* when every required label is present.
MultiConditionAllOrNothing ==
    MultiAllOrNothing("figure7") /\ MultiAllOrNothing("figure8")

\* figure7 alone keeps the rule
Figure7AllOrNothing == MultiAllOrNothing("figure7")

\* one scripted label of figure8 has no record, and figure8 is data-driven
\* with the eight others
Figure8DataDrivenWithEight ==
    /\ manifest_file = FullManifest
    /\ "figure8" \in Done
    /\ Cardinality(MissingLabels("figure8")) = 1
    /\ MarkerOf("figure8") = DATA_DRIVEN
    /\ Len(drawn["figure8"].scripted_labels) = 8
    /\ Len(drawn["figure8"].dynamic_labels) = 4

\* the number of events of the kinds evs in the connection log
CountOf(evs) == Cardinality({i \in DOMAIN conns : conns[i] \in evs})

\* C14: during one run at most one connection to the store is opened, and
\* every read of the store by a renderer goes through the shared handle that
\* get_db created; get_db opens no second connection.
SingleConnection ==
    /\ CountOf({"connect", "connect6"}) <= 1
    /\ "query6" \notin Range(conns)
    /\ CountOf({"query"}) > 0 => _db = Connection

\* get_db itself opens at most one connection, and queries through it only
GetDbConnectsOnce ==
    /\ CountOf({"connect"}) <= 1
    /\ CountOf({"query"}) > 0 => _db = Connection
    /\ \A i \in DOMAIN conns :
          conns[i] = "query" => \E j \in 1..(i - 1) : conns[j] = "connect"

\* a finished run in which get_db opened the shared connection and figure6
\* opened, read and closed a second one of its own
Figure6OwnConnection ==
    /\ pc = "done"
    /\ wordcloud
    /\ manifest_file = FullManifest
    /\ db_file = CompleteStore
    /\ CountOf({"connect"}) = 1
    /\ CountOf({"connect6"}) = 1
    /\ \E i, j, k \in DOMAIN conns :
          /\ i < j /\ j < k
          /\ conns[i] = "connect" /\ conns[j] = "query6" /\ conns[k] = "close"

\* closes of the shared handle come last: after figure9, with no query
\* behind them, and only on a handle that was opened
CloseComesLast ==
    /\ CountOf({"close"}) <= 1
    /\ CountOf({"close"}) = 1 =>
          /\ pc = "done"
          /\ Image("figure9") \in Range(images)
          /\ conns[Len(conns)] = "close"
          /\ CountOf({"connect"}) = 1
    /\ CountOf({"connect"}) = 0 => CountOf({"close"}) = 0

\* C15: a run that opened the shared handle closes it exactly once, after
\* the last renderer, and queries nothing on it afterwards; a run that never
\* opened it closes nothing.
HandleClosedOnce ==
    /\ CloseComesLast
    /\ (pc \in {"done", "crashed"} /\ CountOf({"connect"}) = 1) => CountOf({"close"}) = 1

\* the runs that reach the end of the main block keep the rule
HandleClosedWhenDone ==
    /\ CloseComesLast
    /\ (pc = "done" /\ CountOf({"connect"}) = 1) => CountOf({"close"}) = 1

\* a run that opened the shared handle and ended in figure7's KeyError: the
\* handle was queried by figure4 and figure5 and never closed
HandleLeftOpen ==
    /\ pc = "crashed"
    /\ console[Len(console)] = "Traceback: KeyError"
    /\ Image("figure5") \in Range(images)
    /\ _db = Connection
    /\ CountOf({"connect"}) = 1
    /\ CountOf({"query"}) > 0
    /\ CountOf({"close"}) = 0

\* C16: the manifest file is read at most once in a run, and a manifest
\* once loaded is never replaced or modified by a later get_manifest call or
\* by a renderer.
ManifestLoadedOnce ==
    [][/\ Cardinality({i \in DOMAIN conns' : conns'[i] = "load"}) <= 1
       /\ _manifest # None => _manifest' = _manifest]_vars

\* a manifest once loaded stays as it is
ManifestNeverReplaced == [][_manifest # None => _manifest' = _manifest]_vars

\* every manifest file but the one holding `null` is read at most once, and
\* what is cached is what the file holds
ManifestLoadedOnceUnlessNull ==
    /\ manifest_file # JsonNull => CountOf({"load"}) <= 1
    /\ _manifest # None => (_manifest = manifest_file /\ CountOf({"load"}) = 1)

\* a finished run on a manifest file holding `null`: the head of the main
\* block and each of the four resolved figures read the file
NullManifestReadFiveTimes ==
    /\ pc = "done"
    /\ manifest_file = JsonNull
    /\ _manifest = None
    /\ CountOf({"load"}) = 5
    /\ \A n \in ResolvedFigures : MarkerOf(n) = FALLBACK

EightOthers ==
    <<Image("figure1"), Image("figure2"), Image("figure3"), Image("figure4"),
      Image("figure5"), Image("figure7"), Image("figure8"), Image("figure9")>>

\* C18: without the word-cloud library figure6 is skipped and nothing else:
\* its step prints the SKIPPED notice, writes no image, raises nothing,
\* leaves the store, the connection log and the cached manifest and handle
\* as they are, and hands over to figure7; a run that ends normally has
\* written the eight other images.
Figure6SkippedAlone ==
    [][/\ (pc = "figure6" /\ ~wordcloud) =>
             /\ pc' = "figure7"
             /\ console' = Append(console, "figure6.png SKIPPED (pip install wordcloud)")
             /\ UNCHANGED <<images, drawn, conns, _db, _manifest, db_file, manifest_file>>
       /\ (pc' = "done" /\ ~wordcloud) => images' = EightOthers]_vars

\* a finished data-driven run without the library: the notice stands between
\* figure5.png and figure7's marker, and figure6 made no connection
Figure6SkippedRun ==
    /\ pc = "done"
    /\ ~wordcloud
    /\ db_file = CompleteStore
    /\ images = EightOthers
    /\ "figure6" \notin DOMAIN drawn
    /\ "connect6" \notin Range(conns)
    /\ \E i \in DOMAIN console :
          /\ console[i] = "figure6.png SKIPPED (pip install wordcloud)"
          /\ console[i - 1] = Image("figure5")
          /\ console[i + 1] = DATA_DRIVEN

\* a payload is well formed when it parses to a list of objects
WellFormed(payload) ==
    /\ payload # NULL
    /\ payload.kind = "list"
    /\ \A i \in DOMAIN payload.items : "scalar" \notin DOMAIN payload.items[i]

\* the rows with every malformed payload replaced by an empty list
WithoutMalformed(rows) ==
    [i \in DOMAIN rows |->
        IF WellFormed(rows[i].suggestions) THEN rows[i]
        ELSE [rows[i] EXCEPT !.suggestions = Suggestions("list", <<>>, <<>>)]]

\* the malformed payloads of the store of which the except branch keeps the
\* raw text
RawTextKept ==
    {i \in DOMAIN db_file.rows :
        LET p == db_file.rows[i].suggestions
        IN  p # NULL /\ p.kind \notin {"list", "string", "object"}}

\* figure6 drew the word frequencies of the well-formed payloads alone
MalformedLeftOut ==
    drawn["figure6"] = Fig6Imported(Store(WithoutMalformed(db_file.rows))).out

\* C19: a record with a malformed suggestions payload adds no word to either
\* corpus of figure6 and stops nothing: the frequencies drawn are those of
\* the well-formed payloads, and the records after it are counted.
MalformedAddsNothing ==
    "figure6" \in DOMAIN drawn => MalformedLeftOut

\* payloads that parse to a string, an object or a list of non-objects, and
\* SQL NULL, do add nothing
UniterableAddsNothing ==
    ("figure6" \in DOMAIN drawn /\ RawTextKept = {}) => MalformedLeftOut

\* a base record whose payload is not JSON: its raw words are in the base
\* cloud, beside the words of the records after it
InvalidJsonCounted ==
    /\ "figure6" \in DOMAIN drawn
    /\ db_file \in PayloadStores
    /\ db_file.rows[2].suggestions = Suggestions("invalid", <<>>, <<"oops", "broken">>)
    /\ db_file.rows[2].profile_name = BASE_SINGLE
    /\ "broken" \in DOMAIN drawn["figure6"].base_freq
    /\ "broken" \notin DOMAIN drawn["figure6"].recog_freq
    /\ drawn["figure6"].base_freq["explore"] > 1

\* figure n fell back and draws its embedded literals, which no store enters
FallbackLiteral(n) == MarkerOf(n) = FALLBACK => drawn[n] = Literal(n)

\* C22: a figure that takes the fallback path displays the embedded literals
\* only (values, labels and N counts), whatever the store holds, so that two
\* runs that both fall back for a figure display the same for it.
FallbackIsLiteral == \A n \in Done : FallbackLiteral(n)

\* figure4, figure5 and figure7 alone
FallbackIsLiteralBut8 == \A n \in Done \ {"figure8"} : FallbackLiteral(n)

\* the second dynamic run was never evaluated: figure8 falls back with the
\* literal bars and labels, under a scripted N that is the number of scripted
\* records in the store; on a store without file the same fallback shows 360
Fallback8DependsOnStore ==
    /\ manifest_file = FullManifest
    /\ db_file \in StoresWithoutRun
    /\ \A i \in DOMAIN db_file.rows : db_file.rows[i].run_id # RunDynamicB
    /\ "figure8" \in Done
    /\ MarkerOf("figure8") = FALLBACK
    /\ drawn["figure8"].scripted_labels = Literal("figure8").scripted_labels
    /\ drawn["figure8"].dynamic_vals = Literal("figure8").dynamic_vals
    /\ drawn["figure8"].dynamic_n = Fig8Literal.dynamic_n
    /\ drawn["figure8"].scripted_n =
          Cardinality({i \in DOMAIN db_file.rows : db_file.rows[i].run_id = RunScripted})
    /\ drawn["figure8"].scripted_n # figure8(None, FullManifest, None, NoFile).out.scripted_n

\* the runs of the five models of figure4, in loop order, and their labels
Fig4Runs == <<RUN_KIMI, RunNemotron, RunDeepseek, RunGlm, RunHaiku>>
Fig4Labels == <<"Kimi K2.5", "Nemotron", "DeepSeek", "GLM-4.7", "Haiku 4.5">>

\* the models of figure4 for which the store gives no effects: the query is
\* empty or one of the four cells has no matching record
Fig4Failing ==
    {k \in DOMAIN Fig4Runs :
        \E l \in Cells2x2 :
            ~\E i \in Matching({Fig4Runs[k]}, manifest_file.figures.figure4.judge_filter) :
                db_file.rows[i].profile_name = l}

\* C23: figure4 is data-driven exactly when the store gives effects for all
\* five models, which it then shows in loop order; otherwise the loop has
\* stopped at the first model without effects (no later model was queried)
\* and all five entries drawn are the literals.
Figure4AllFive ==
    (pc = "figure5" /\ CompleteManifest /\ UsableStore) =>
        IF Fig4Failing = {}
        THEN /\ MarkerOf("figure4") = DATA_DRIVEN
             /\ [k \in DOMAIN drawn["figure4"].models |-> drawn["figure4"].models[k].label]
                   = Fig4Labels
             /\ Len(drawn["figure4"].recog_effect) = 5
             /\ Len(drawn["figure4"].ab_interaction) = 5
             /\ CountOf({"query"}) = 5
        ELSE /\ MarkerOf("figure4") = FALLBACK
             /\ drawn["figure4"] = Fig4Literal
             /\ \A k \in Fig4Failing : CountOf({"query"}) <= k
             /\ CountOf({"query"}) \in Fig4Failing

\* the third model lacks a cell: kimi and nemotron were computed and
\* appended, the loop stopped at deepseek after three queries, and the five
\* literal entries are drawn
Figure4StoppedAtThird ==
    /\ pc = "figure5"
    /\ manifest_file = FullManifest
    /\ UsableStore
    /\ Fig4Failing = {3}
    /\ CountOf({"query"}) = 3
    /\ MarkerOf("figure4") = FALLBACK
    /\ drawn["figure4"] = Fig4Literal

\* the number of records a query for run_ids and judge_filter reads, which
\* is the sum of n over all the labels it returns
Read(run_ids, judge_filter) == Cardinality(Matching(run_ids, judge_filter))

\* the N a data-driven figure n reports, and the N of all records read
ReportedN(n) ==
    CASE n = "figure4" -> [k \in DOMAIN Fig4Runs |-> drawn[n].models[k].n]
      [] n = "figure5" -> <<drawn[n].phil_n, drawn[n].elem_n>>
      [] n = "figure7" -> <<drawn[n].total_n>>
      [] n = "figure8" -> <<drawn[n].scripted_n, drawn[n].dynamic_n>>
ReadN(n) ==
    CASE n = "figure4" ->
            [k \in DOMAIN Fig4Runs |->
                Read({Fig4Runs[k]}, manifest_file.figures.figure4.judge_filter)]
      [] n = "figure5" ->
            <<Read({RUN_KIMI}, manifest_file.figures.figure5.judge_filter),
              Read({RunElementary}, manifest_file.figures.figure5.judge_filter)>>
      [] n = "figure7" -> <<Read({RunPersona}, CLAUDE_CODE_FILTER)>>
      [] n = "figure8" -> <<Read({RunScripted}, CLAUDE_CODE_FILTER),
                            Read({RunDynamicA, RunDynamicB}, CLAUDE_CODE_FILTER)>>

-----------------------------------------------------------------------------
(* Termination and the images of a finished run, checked under SpecLive *)

AllNine ==
    <<Image("figure1"), Image("figure2"), Image("figure3"), Image("figure4"),
      Image("figure5"), Image("figure6"), Image("figure7"), Image("figure8"),
      Image("figure9")>>

\* figure6 printed one of its SKIPPED notices
Fig6Skipped == (Range(console) \cap Fig6Lines) \ {Image("figure6")} # {}

\* the run is over and 'Done' is the last line printed
PrintedDone == pc = "done" /\ console[Len(console)] = "Done."

\* C21 as stated: a run that ends normally has written all nine images, in
\* order, before printing 'Done'.
AllNineWritten == PrintedDone => images = AllNine

\* C21, amended: every run ends, normally or in an uncaught error; a run that
\* ends normally has printed 'Done' last and has written, in order, figure1
\* to figure9 with figure6.png left out exactly when figure6 printed a
\* SKIPPED notice.
TerminatesWithImages ==
    /\ <>(pc \in {"done", "crashed"})
    /\ [](pc = "done" =>
            /\ PrintedDone
            /\ images = (IF Fig6Skipped THEN EightOthers ELSE AllNine)
            /\ \A i \in DOMAIN images :
                  \E j \in 1..(Len(console) - 1) : console[j] = images[i])

\* the same of the finished runs, as a property of states: it holds under
\* Spec too, for every manifest and store of RunInputs
DoneImages ==
    pc = "done" =>
        /\ PrintedDone
        /\ images = (IF Fig6Skipped THEN EightOthers ELSE AllNine)

\* the place of each position in the main block
Rank(p) ==
    CASE p = "start" -> 0
      [] p \in Renderers -> CHOOSE k \in 1..9 : AllNine[k] = Image(p)
      [] p = "finish" -> 10
      [] OTHER -> 11

\* every step moves forward in the main block, so that no run has more than
\* eleven steps; it holds under Spec too
StepsForward == [][Rank(pc') > Rank(pc)]_vars

\* a finished run with the library installed and text in the store: nine
\* images
NineImagesRun ==
    /\ PrintedDone
    /\ wordcloud
    /\ db_file = SmallStore
    /\ ~Fig6Skipped
    /\ "explore" \in DOMAIN drawn["figure6"].base_freq
    /\ images = AllNine

\* a finished run with the library installed and no store file: figure6
\* printed 'SKIPPED (database not found)' and eight images were written
EightImagesRun ==
    /\ PrintedDone
    /\ wordcloud
    /\ db_file = NoFile
    /\ "figure6.png SKIPPED (database not found)" \in Range(console)
    /\ images = EightOthers

-----------------------------------------------------------------------------
(* Properties of a run beside which the files appear, checked under SpecEnv *)

\* the head of the main block found the manifest or the store missing
FoundMissing ==
    "WARNING: manifest or DB not found, using hardcoded fallbacks" \in Range(console)

\* C17: once the head of the main block has found the manifest or the store
\* missing, the run stays on the literal fallback: no later call reads the
\* manifest file or opens the store, and no figure becomes data-driven, even
\* if the file has appeared in the meantime.
NothingRetried ==
    [][FoundMissing =>
          /\ Cardinality({i \in DOMAIN conns' : conns'[i] \in {"load", "connect"}})
                = CountOf({"load", "connect"})
          /\ DATA_DRIVEN \notin Range(console')]_vars

\* the store appeared between figure4 and figure5, after the head had found
\* it missing: figure4 drew the literals, figure5 opened the store and is
\* data-driven
StoreFoundLater ==
    /\ pc = "done"
    /\ FoundMissing
    /\ MarkerOf("figure4") = FALLBACK
    /\ drawn["figure4"] = Literal("figure4")
    /\ MarkerOf("figure5") = DATA_DRIVEN
    /\ drawn["figure5"] # Literal("figure5")
    /\ \E i \in DOMAIN conns : i > 1 /\ conns[i] = "connect"

-----------------------------------------------------------------------------
(* Properties of repeated and reordered renderer calls, checked under
   SpecCalls *)

\* the markers printed by the calls of renderer n so far
MarkersOf(n) == {console[i - 1] : i \in {j \in DOMAIN console : j > 1 /\ console[j] = Image(n)}}

\* the resolution figure n makes in a process in which nothing was loaded or
\* opened before
Alone(n) ==
    CASE n = "figure4" -> figure4(None, manifest_file, None, db_file)
      [] n = "figure5" -> figure5(None, manifest_file, None, db_file)
      [] n = "figure7" -> figure7(None, manifest_file, None, db_file)
      [] n = "figure8" -> figure8(None, manifest_file, None, db_file)

\* C12: resolving a figure that was resolved before in the same process, with
\* the same manifest and store, succeeds again and gives what the earlier
\* resolution gave: the same bundle (values and N labels) is drawn and the
\* same provenance marker is printed, with the manifest and the store handle
\* cached by then.
SecondResolutionSame ==
    [][\A n \in ResolvedFigures :
          (n \in DOMAIN drawn /\ call' = Append(call, n)) =>
              /\ pc' = "main"
              /\ drawn'[n] = drawn[n]
              /\ console' = console \o <<console'[Len(console) + 1], Image(n)>>
              /\ MarkersOf(n) = {console'[Len(console) + 1]}]_vars

\* figure4 was resolved twice from the complete store: both resolutions are
\* data-driven and one connection was opened
Figure4ResolvedTwice ==
    /\ call = <<"figure4", "figure4">>
    /\ pc = "main"
    /\ db_file = CompleteStore
    /\ drawn["figure4"] # Literal("figure4")
    /\ console[Len(console) - 1] = DATA_DRIVEN
    /\ console[Len(console) - 3] = DATA_DRIVEN
    /\ Cardinality({i \in DOMAIN conns : conns[i] = "connect"}) = 1

\* C20: whatever renderers were called before it, and in whatever order, a
\* renderer draws what it draws when it is the only one called: the same
\* bundle and, for the four resolved figures, the same marker; and a call
\* fails only where the renderer fails on its own.
OrderIndependent ==
    /\ \A n \in DOMAIN drawn :
          IF n \in ResolvedFigures
          THEN LET r == Alone(n)
               IN  r.raised = Nothing /\ drawn[n] = r.out /\ MarkersOf(n) = {r.marker}
          ELSE IF n = "figure6"
          THEN LET r == figure6(wordcloud, db_file)
               IN  r.raised = Nothing /\ r.skipped = Nothing /\ drawn[n] = r.out
          ELSE drawn[n] = "literals"
    /\ (pc = "crashed" /\ call # <<>>) =>
          LET n == call[Len(call)]
          IN  /\ n \in ResolvedFigures \cup {"figure6"}
              /\ console[Len(console)] =
                    "Traceback: " \o (IF n = "figure6" THEN figure6(wordcloud, db_file).raised
                                      ELSE Alone(n).raised)

\* figure8 ran before figure4 on a store without the scripted run: each of
\* the two draws what it draws alone, and figure4 is data-driven
Figure4AfterFigure8 ==
    /\ call = <<"figure8", "figure4">>
    /\ pc = "main"
    /\ db_file = StoreWithoutScripted
    /\ drawn["figure4"] = Alone("figure4").out
    /\ drawn["figure4"] # Literal("figure4")
    /\ drawn["figure8"] = Alone("figure8").out
    /\ MarkersOf("figure4") = {DATA_DRIVEN}

====
